---------------------------- MODULE Spec2Model ----------------------------
(***************************************************************************)
(* A model of SDRranger's gDNA counting pipeline (src/SDRranger/gDNAcount.py *)
(* and the threshold estimator of src/SDRranger/count.py).                   *)
(*                                                                           *)
(* Strings over {A,C,G,N,T} are sequences of the codes 1..5 in the order of  *)
(* their characters (A=1, C=2, G=3, N=4, T=5), so that Python's string order *)
(* is the lexicographic order of the sequences.  Python's None is the empty  *)
(* tuple.  Python indices are 0-based, TLA+ sequences 1-based.               *)
(***************************************************************************)
EXTENDS Integers, Sequences, FiniteSets, TLC

None == <<>>

\* ------------------------------------------------------------------ bounds

\* Longest barcode stream of a run with every worker interleaving.
MaxLen == 4
\* Largest chunk size tried (the code fixes chunksize = 100000).
MaxChunk == 3
\* Largest thread count tried.
MaxThreads == 3
\* At most this many workers fail in one run.
MaxFailures == 1
\* The size of the threshold sample, scaled down from the code's 10000.
SampleBound == 5
\* Longest barcode stream handed to a stepped synchronizer.
MaxBc == 3
\* The read names of those streams are 1..MaxNames.
MaxNames == 3
\* Longest sample of norm scores the counter's threshold is estimated
\* from; it stands for the 100000 of count.py:121.
MaxSample == 5
\* The references of the header of a sorted alignment file.
MaxRefs == 2
\* Most records of a sorted alignment file handed to the matrix builder.
MaxRecs == 3
\* Longest stream of a whole run of process_gDNA_fastqs.
MaxRunLen == 2
\* The runs of process_gDNA_fastqs on one output folder.
MaxRuns == 2
\* In a stream longer than the sample, at most this many reads differ from
\* the typical (perfect) read.
MaxOdd == 2
\* Most bases after the first barcode in a read aligned on its own.
MaxTail == 6
\* Longest synchronized stream handed to a stepped chunk generator.
MaxStream == 7

\* gDNAcount.py:26 (10000 in the code)
n_first_seqs == SampleBound

\* ------------------------------------------------- sequences and ordering

Min(a, b) == IF a <= b THEN a ELSE b

Range(s) == {s[i] : i \in 1..Len(s)}

\* The element of a set of one element.  {e(x) : x \in {v}} names the value
\* v once, where e uses it many times: the(...) is e(v).
the(S) == CHOOSE x \in S : TRUE

RECURSIVE SumSeq(_)
SumSeq(s) == IF s = <<>> THEN 0 ELSE Head(s) + SumSeq(Tail(s))

RECURSIVE Concat(_)
\* the concatenation of a sequence of sequences
Concat(ss) == IF ss = <<>> THEN <<>> ELSE Head(ss) \o Concat(Tail(ss))

RECURSIVE StrLess(_, _)
\* Python's s < t on strings
StrLess(s, t) ==
    IF t = <<>> THEN FALSE
    ELSE IF s = <<>> THEN TRUE
    ELSE IF Head(s) # Head(t) THEN Head(s) < Head(t)
    ELSE StrLess(Tail(s), Tail(t))

RECURSIVE ListLess(_, _)
\* Python's p < q on lists of strings
ListLess(p, q) ==
    IF q = <<>> THEN FALSE
    ELSE IF p = <<>> THEN TRUE
    ELSE IF Head(p) # Head(q) THEN StrLess(Head(p), Head(q))
    ELSE ListLess(Tail(p), Tail(q))

\* Python's a < b on (score, pieces) tuples
TupleLess(a, b) ==
    IF a[1] # b[1] THEN a[1] < b[1] ELSE ListLess(a[2], b[2])

RECURSIVE MaxFrom(_, _)
MaxFrom(best, rest) ==
    IF rest = <<>> THEN best
    ELSE MaxFrom(IF TupleLess(best, Head(rest)) THEN Head(rest) ELSE best, Tail(rest))

\* Python's max() of a non-empty list of (score, pieces) tuples: the first
\* of the greatest elements
max(l) == MaxFrom(Head(l), Tail(l))

\* ------------------------------------------- layout aligner (spec 4.1)

\* a variant that declares the spacers the other way round: shortest first
commonseq1_options_shortest_first == << <<2>>, <<5, 2>>, <<3, 5, 2>> >>

\* count.py:13, scaled: the frame-shifted spacers full[i:], full = "GTC"
commonseq1_options == << <<3, 5, 2>>, <<5, 2>>, <<2>> >>

\* count.py:15, scaled: "G"
commonseq2_gDNA == <<3>>

\* 'N' * n
Ns(n) == [i \in 1..n |-> 4]

\* CustomBCAligner(*prefixes): the layout, a list of pieces to find in
\* order; an N of a prefix matches any base
CustomBCAligner(prefixes) == [prefixes |-> prefixes]

\* The aligners of the gDNA layout: barcode, spacer variant, barcode,
\* second spacer, sample barcode, UMI
build_gDNA_bc_aligners ==
    [k \in 1..Len(commonseq1_options) |->
        CustomBCAligner(<<Ns(2), commonseq1_options[k], Ns(2),
                          commonseq2_gDNA, Ns(2), Ns(1)>>)]

\* The scores of all layouts on one scale: matching bases * ScoreScale /
\* literal bases is the normalized score times ScoreScale
ScoreScale == 3 * 4

RECURSIVE place(_, _, _, _, _, _)
\* Greedy left-to-right placement of the prefixes from offset pos: each
\* piece is the next Len(prefix) bases, clamped to the end of the sequence
place(prefixes, seq, pos, pieces, matched, literal) ==
    IF prefixes = <<>> THEN [pieces |-> pieces, matched |-> matched, literal |-> literal]
    ELSE LET p == Head(prefixes)
             last == Min(pos + Len(p) - 1, Len(seq))
             piece == SubSeq(seq, pos, last)
             m == Cardinality({i \in 1..Len(piece) : p[i] # 4 /\ piece[i] = p[i]})
             l == Cardinality({i \in 1..Len(p) : p[i] # 4})
         IN place(Tail(prefixes), seq, pos + Len(p), Append(pieces, piece),
                  matched + m, literal + l)

\* al.find_norm_score_and_pieces(seq): (normalized score, pieces)
find_norm_score_and_pieces(al, seq) ==
    the({ << IF r.literal = 0 THEN 0 ELSE (r.matched * ScoreScale) \div r.literal,
             r.pieces >> :
          r \in {place(al.prefixes, seq, 1, <<>>, 0, 0)} })

\* ---------------------------------------- whitelist decoders (spec 4.2)

\* arguments.barcode_whitelist: "AA", "CC"
barcode_whitelist == << <<1, 1>>, <<2, 2>> >>

\* arguments.sample_barcode_whitelist: "AA", "TT"
sample_barcode_whitelist == << <<1, 1>>, <<5, 5>> >>

max_bc_err_decode == 1

max_sbc_err_decode == 1

sbc_reject_delta == 1

Hamming(s, t) ==
    Cardinality({i \in 1..Len(t) : i > Len(s) \/ s[i] # t[i]})

\* the first whitelist entry at the least distance from raw
Nearest(whitelist, raw) ==
    LET d(k) == Hamming(raw, whitelist[k])
        best == CHOOSE k \in 1..Len(whitelist) :
                    \A j \in 1..Len(whitelist) : d(k) < d(j) \/ (d(k) = d(j) /\ k <= j)
    IN best

\* BCDecoder(whitelist, max_err).decode(raw)
bcd_decode(raw) ==
    LET k == Nearest(barcode_whitelist, raw)
    IN IF Hamming(raw, barcode_whitelist[k]) <= max_bc_err_decode
       THEN barcode_whitelist[k] ELSE None

\* SBCDecoder(whitelist, max_err, reject_delta).decode(raw): as the plain
\* decoder, and ambiguous (None) when a second entry is within reject_delta
\* of the best distance
sbcd_decode(raw) ==
    LET k == Nearest(sample_barcode_whitelist, raw)
        d == Hamming(raw, sample_barcode_whitelist[k])
    IN IF d > max_sbc_err_decode THEN None
       ELSE IF \E j \in 1..Len(sample_barcode_whitelist) :
                   j # k /\ Hamming(raw, sample_barcode_whitelist[j]) - d < sbc_reject_delta
       THEN None
       ELSE sample_barcode_whitelist[k]

\* s.upper().replace('N', 'A'): the bases are upper case already
upper_replace_N(s) == [i \in 1..Len(s) |-> IF s[i] = 4 THEN 1 ELSE s[i]]

\* ---------------------------------------------- tagged alignment records

AllTags == {"CB", "CR", "SB", "SR", "FB", "FR", "UR"}

\* p_read.set_tag(tag, value)
set_tag(read, tag, value) ==
    [read EXCEPT !.tags = [t \in (DOMAIN @) \cup {tag} |->
                              IF t = tag THEN value ELSE @[t]]]

\* an aligned record as STAR wrote it: no tag of this pipeline
AlignedRead(qname) == [qname |-> qname, tags |-> [t \in {} |-> None]]

\* ------------------------------------------ process_bc_rec_and_p_read

\* a variant that takes the last aligner whose score is the best score
last_with_score(aligners, scores_and_pieces, raw_score) ==
    aligners[CHOOSE k \in 1..Len(aligners) :
                /\ scores_and_pieces[k][1] = raw_score
                /\ \A j \in (k + 1)..Len(aligners) : scores_and_pieces[j][1] # raw_score]

\* the first aligner whose score is the best score
first_with_score(aligners, scores_and_pieces, raw_score) ==
    aligners[CHOOSE k \in 1..Len(aligners) :
                /\ scores_and_pieces[k][1] = raw_score
                /\ \A j \in 1..(k - 1) : scores_and_pieces[j][1] # raw_score]

\* The decoded pieces: None in a place whose decode failed
decoded_pieces(raw, best_aligner) ==
    [raw_score |-> raw[1],
     raw_pieces |-> raw[2],
     best_aligner |-> best_aligner,
     pieces |-> << bcd_decode(upper_replace_N(raw[2][1])),
                   best_aligner.prefixes[2],
                   bcd_decode(upper_replace_N(raw[2][3])),
                   best_aligner.prefixes[4],
                   sbcd_decode(upper_replace_N(raw[2][5])) >>]

corrected_pieces_of(aligners, bc_seq) ==
    the({ the({ decoded_pieces(raw, first_with_score(aligners, scores_and_pieces, raw[1])) :
                raw \in {max(scores_and_pieces)} }) :
          scores_and_pieces \in {[k \in 1..Len(aligners) |->
                                    find_norm_score_and_pieces(aligners[k], bc_seq)]} })

\* the tags of lines 142-151, set on p_read
tag_read(p_read, c, new_pieces) ==
    LET r1 == set_tag(p_read, "CB", <<c.pieces[1], c.pieces[3]>>)
        r2 == set_tag(r1, "CR", <<c.raw_pieces[1], c.raw_pieces[3]>>)
        r3 == set_tag(r2, "SB", c.pieces[5])
        r4 == set_tag(r3, "SR", c.raw_pieces[5])
        r5 == set_tag(r4, "FB", <<c.pieces[2], c.pieces[4]>>)
        r6 == set_tag(r5, "FR", <<c.raw_pieces[2], c.raw_pieces[4]>>)
    IN set_tag(r6, "UR", new_pieces[Len(new_pieces)])

\* a variant that never gives up: the check of line 134 left out
decode_failed_never(corrected_pieces) == FALSE

\* whether the function gives up before it sets a tag
decode_failed(corrected_pieces) == None \in Range(corrected_pieces)

\* process_bc_rec_and_p_read(bc_rec, p_read, aligners, bcd, sbcd): the
\* returned (score, read) and p_read as the call leaves it
process_bc_rec_and_p_read(bc_rec, p_read, aligners) ==
    the({ IF decode_failed(c.pieces)
          THEN [score |-> c.raw_score, read |-> None, p_read |-> p_read]
          ELSE the({ [score |-> c.raw_score, read |-> tagged, p_read |-> tagged] :
                     tagged \in {tag_read(p_read, c,
                                    find_norm_score_and_pieces(
                                       CustomBCAligner(Append(c.pieces, Ns(1))),
                                       bc_rec.seq)[2])} }) :
          c \in {corrected_pieces_of(aligners, bc_rec.seq)} })

\* ----------------------------------------------- threshold (spec 4.3)

\* ------------------------------------------- float64 arithmetic (numpy)

\* 2^0 .. 2^30
Pow2 ==
    <<1, 2, 4, 8, 16, 32, 64, 128, 256, 512, 1024, 2048, 4096, 8192, 16384,
      32768, 65536, 131072, 262144, 524288, 1048576, 2097152, 4194304,
      8388608, 16777216, 33554432, 67108864, 134217728, 268435456,
      536870912, 1073741824>>

\* A natural number of any size is the sequence of its digits to the base
\* 2^LimbBits, the lowest first
LimbBits == 2 * 7

Base == Pow2[LimbBits + 1]

\* the bits of the significand of a float64: the hidden one and 52 stored
MantBits == 1 + 52

Max(a, b) == IF a >= b THEN a ELSE b

limb(N, i) == IF i >= 1 /\ i <= Len(N) THEN N[i] ELSE 0

\* the number of bits of a natural below 2^31
bits(x) ==
    IF x = 0 THEN 0
    ELSE CHOOSE b \in 1..31 : Pow2[b] <= x /\ (b = 31 \/ x < Pow2[b + 1])

big_bitlen(N) ==
    LET nz == {i \in 1..Len(N) : N[i] # 0}
    IN IF nz = {} THEN 0
       ELSE the({ LimbBits * (t - 1) + bits(N[t]) :
                  t \in {CHOOSE i \in nz : \A j \in nz : j <= i} })

\* N div 2^s
big_shr(N, s) ==
    the({ [i \in 1..Max(Len(N) - a, 0) |->
              (limb(N, i + a) \div Pow2[b + 1])
              + (limb(N, i + a + 1) % Pow2[b + 1]) * Pow2[LimbBits - b + 1]] :
          a \in {s \div LimbBits}, b \in {s % LimbBits} })

\* N * 2^s
big_shl(N, s) ==
    the({ [i \in 1..(Len(N) + a + 1) |->
              ((limb(N, i - a) * Pow2[b + 1]) % Base)
              + ((limb(N, i - a - 1) * Pow2[b + 1]) \div Base)] :
          a \in {s \div LimbBits}, b \in {s % LimbBits} })

\* bit p of N, the lowest being bit 0
big_bit(N, p) == (limb(N, (p \div LimbBits) + 1) \div Pow2[(p % LimbBits) + 1]) % 2

\* N mod 2^s = 0
big_low_zero(N, s) ==
    /\ \A i \in 1..(s \div LimbBits) : limb(N, i) = 0
    /\ limb(N, (s \div LimbBits) + 1) % Pow2[(s % LimbBits) + 1] = 0

\* A + B: the carry into digit i comes from a digit below that overflows,
\* passed on by digits that are all Base - 1
big_add(A, B) ==
    [i \in 1..(Max(Len(A), Len(B)) + 1) |->
        (limb(A, i) + limb(B, i)
         + (IF \E j \in 1..(i - 1) :
                   /\ limb(A, j) + limb(B, j) >= Base
                   /\ \A k \in (j + 1)..(i - 1) : limb(A, k) + limb(B, k) = Base - 1
            THEN 1 ELSE 0)) % Base]

\* A < B
big_less(A, B) ==
    \E i \in 1..Max(Len(A), Len(B)) :
        /\ limb(A, i) < limb(B, i)
        /\ \A k \in (i + 1)..Max(Len(A), Len(B)) : limb(A, k) = limb(B, k)

\* A - B for A >= B
big_sub(A, B) ==
    [i \in 1..Len(A) |->
        (limb(A, i) - limb(B, i) + Base
         - (IF \E j \in 1..(i - 1) :
                   /\ limb(A, j) < limb(B, j)
                   /\ \A k \in (j + 1)..(i - 1) : limb(A, k) = limb(B, k)
            THEN 1 ELSE 0)) % Base]

\* A * B for A of at most four digits: the columns of the long
\* multiplication, each split into three digits
big_mul(A, B) ==
    the({ big_add(big_add([k \in 1..Len(cols) |-> cols[k] % Base],
                          <<0>> \o [k \in 1..Len(cols) |-> (cols[k] \div Base) % Base]),
                  <<0, 0>> \o [k \in 1..Len(cols) |-> cols[k] \div (Base * Base)]) :
          cols \in {[k \in 1..(Len(B) + 3) |->
                        limb(A, 1) * limb(B, k) + limb(A, 2) * limb(B, k - 1)
                        + limb(A, 3) * limb(B, k - 2) + limb(A, 4) * limb(B, k - 3)]} })

RECURSIVE big_divmod(_, _, _, _)
\* the digits 1..i of N, with rem carried in from the digits above, divided
\* by n < 2^17: quotient and remainder
big_divmod(N, n, i, rem) ==
    IF i = 0 THEN [q |-> <<>>, r |-> rem]
    ELSE the({ the({ [q |-> Append(rest.q, t \div n), r |-> rest.r] :
                     rest \in {big_divmod(N, n, i - 1, t % n)} }) :
               t \in {rem * Base + N[i]} })

\* A float64 that is a number: sgn * man * 2^exp with man a natural of
\* MantBits bits in four digits; zero has man = 0; sgn = 0 marks nan
f64_zero == [sgn |-> 1, man |-> <<0, 0, 0, 0>>, exp |-> 0]

f64_nan == [sgn |-> 0, man |-> <<0, 0, 0, 0>>, exp |-> 0]

fit4(N) == [i \in 1..4 |-> limb(N, i)]

\* sgn * (N + a fraction when sticky) * 2^e, rounded to the nearest
\* float64, a tie going to the even significand
f64_round(sgn, N, e, sticky) ==
    the({ IF L = 0 THEN f64_zero
          ELSE IF L <= MantBits
          THEN [sgn |-> sgn, man |-> fit4(big_shl(N, MantBits - L)),
                exp |-> e - (MantBits - L)]
          ELSE the({ the({ IF big_bitlen(M) > MantBits
                           THEN [sgn |-> sgn, man |-> fit4(big_shr(M, 1)),
                                 exp |-> e + s + 1]
                           ELSE [sgn |-> sgn, man |-> fit4(M), exp |-> e + s] :
                           M \in {IF /\ big_bit(N, s - 1) = 1
                                     /\ \/ ~big_low_zero(N, s - 1)
                                        \/ sticky
                                        \/ limb(q, 1) % 2 = 1
                                  THEN big_add(q, <<1>>) ELSE q} }) :
                     s \in {L - MantBits}, q \in {big_shr(N, L - MantBits)} }) :
          L \in {big_bitlen(N)} })

\* float(k) for an integer k of less than 2^31 in size
f64_from_int(k) ==
    the({ f64_round(IF k < 0 THEN -1 ELSE 1,
                    <<a % Base, (a \div Base) % Base, a \div (Base * Base)>>, 0, FALSE) :
          a \in {IF k < 0 THEN -k ELSE k} })

f64_is_zero(x) == x.sgn # 0 /\ x.man = <<0, 0, 0, 0>>

f64_neg(x) == IF f64_is_zero(x) THEN x ELSE [x EXCEPT !.sgn = -x.sgn]

\* the sum of two numbers that are not zero, x having the greater exponent
\* by d: beyond 60 bits apart the smaller one is lost in the rounding
f64_add_aligned(x, y, d) ==
    IF d > 60 THEN x
    ELSE the({ IF x.sgn = y.sgn THEN f64_round(x.sgn, big_add(A, y.man), y.exp, FALSE)
               ELSE IF big_less(A, y.man)
                    THEN f64_round(y.sgn, big_sub(y.man, A), y.exp, FALSE)
                    ELSE f64_round(x.sgn, big_sub(A, y.man), y.exp, FALSE) :
               A \in {big_shl(x.man, d)} })

\* x + y
f64_add(x, y) ==
    IF x.sgn = 0 \/ y.sgn = 0 THEN f64_nan
    ELSE IF f64_is_zero(x) THEN y
    ELSE IF f64_is_zero(y) THEN x
    ELSE IF x.exp >= y.exp THEN f64_add_aligned(x, y, x.exp - y.exp)
    ELSE f64_add_aligned(y, x, y.exp - x.exp)

\* x - y
f64_sub(x, y) == f64_add(x, f64_neg(y))

\* x * y
f64_mul(x, y) ==
    IF x.sgn = 0 \/ y.sgn = 0 THEN f64_nan
    ELSE IF f64_is_zero(x) \/ f64_is_zero(y) THEN f64_zero
    ELSE f64_round(x.sgn * y.sgn, big_mul(x.man, y.man), x.exp + y.exp, FALSE)

\* x / n for a count n below 2^17; 0/0 is nan
f64_div_int(x, n) ==
    IF x.sgn = 0 \/ n = 0 THEN f64_nan
    ELSE IF f64_is_zero(x) THEN x
    ELSE the({ f64_round(x.sgn, d.q, x.exp - 2 * LimbBits, d.r # 0) :
               d \in {big_divmod(<<0, 0>> \o x.man, n, 6, 0)} })

\* the root and the remainder of f64_sqrt are held as lo + hi * SqrtBase
SqrtBase == Pow2[29]

\* One bit of the root: pair p of the bits of N is brought down into the
\* remainder, and the bit is 1 when 4 * r + 1 can be taken from it.  st
\* holds the root so far and the remainder.  The pairs from `low` on are
\* those of M, the ones below are zero.
sqrt_step(M, low, p, st) ==
    the({ IF rem4[2] > trial[2] \/ (rem4[2] = trial[2] /\ rem4[1] >= trial[1])
          THEN [r |-> <<(2 * r[1] + 1) % SqrtBase,
                        2 * r[2] + ((2 * r[1] + 1) \div SqrtBase)>>,
                rem |-> IF rem4[1] >= trial[1]
                        THEN <<rem4[1] - trial[1], rem4[2] - trial[2]>>
                        ELSE <<rem4[1] + SqrtBase - trial[1], rem4[2] - trial[2] - 1>>]
          ELSE [r |-> <<(2 * r[1]) % SqrtBase, 2 * r[2] + ((2 * r[1]) \div SqrtBase)>>,
                rem |-> rem4] :
          r \in {st.r},
          rem4 \in {<<(4 * st.rem[1] + pair) % SqrtBase,
                      4 * st.rem[2] + ((4 * st.rem[1] + pair) \div SqrtBase)>> :
                    pair \in {IF p >= low
                              THEN (big_bit(M, 2 * (p - low) + 1) * 2)
                                   + big_bit(M, 2 * (p - low))
                              ELSE 0}},
          trial \in {<<(4 * st.r[1] + 1) % SqrtBase,
                       4 * st.r[2] + ((4 * st.r[1] + 1) \div SqrtBase)>>} })

RECURSIVE sqrt_bits(_, _, _, _)
\* the square root of N bit by bit, from pair p down to pair 0, five
\* pairs at a time
sqrt_bits(M, low, p, st) ==
    IF p < 0 THEN st
    ELSE the({ sqrt_bits(M, low, p - 5, s5) :
               s5 \in {sqrt_step(M, low, p - 4, s4) :
                       s4 \in {sqrt_step(M, low, p - 3, s3) :
                       s3 \in {sqrt_step(M, low, p - 2, s2) :
                       s2 \in {sqrt_step(M, low, p - 1, s1) :
                       s1 \in {sqrt_step(M, low, p, st)}}}}} })

\* sqrt(x) for x >= 0; the root of a negative number is nan
f64_sqrt(x) ==
    IF x.sgn <= 0 THEN (IF f64_is_zero(x) THEN x ELSE f64_nan)
    ELSE IF f64_is_zero(x) THEN x
    ELSE the({ the({ f64_round(1, <<res.r[1] % Base, res.r[1] \div Base,
                                   res.r[2] % Base, res.r[2] \div Base>>,
                                 (e - 56) \div 2, res.rem # <<0, 0>>) :
                     res \in {sqrt_bits(M, 28, 54, [r |-> <<0, 0>>, rem |-> <<0, 0>>])} }) :
               M \in {IF x.exp % 2 = 0 THEN x.man ELSE fit4(big_shl(x.man, 1))},
               e \in {IF x.exp % 2 = 0 THEN x.exp ELSE x.exp - 1} })

\* x < y; nothing is less than nan and nan is less than nothing
f64_less(x, y) ==
    /\ x.sgn # 0
    /\ y.sgn # 0
    /\ x # y
    /\ IF f64_is_zero(x) THEN y.sgn = 1
       ELSE IF f64_is_zero(y) THEN x.sgn = -1
       ELSE IF x.sgn # y.sgn THEN x.sgn = -1
       ELSE IF x.exp # y.exp THEN (x.exp < y.exp) = (x.sgn = 1)
       ELSE big_less(x.man, y.man) = (x.sgn = 1)

\* x <= y
f64_le(x, y) == x.sgn # 0 /\ y.sgn # 0 /\ ~f64_less(y, x)

RECURSIVE f64_sum_loop(_, _, _, _, _)
\* res += a[i] for i from lo to hi in steps of step
f64_sum_loop(a, lo, hi, step, res) ==
    IF lo > hi THEN res
    ELSE the({ f64_sum_loop(a, lo + step, hi, step, r) : r \in {f64_add(res, a[lo])} })

RECURSIVE pairwise_sum(_, _, _)
\* numpy's sum of the n floats of a from position lo on: a plain loop
\* below eight, eight running sums up to 128, halves beyond
pairwise_sum(a, lo, n) ==
    IF n < 8 THEN f64_sum_loop(a, lo, lo + n - 1, 1, f64_zero)
    ELSE IF n <= 128
    THEN the({ f64_sum_loop(a, lo + n - (n % 8), lo + n - 1, 1,
                   f64_add(f64_add(f64_add(r[0], r[1]), f64_add(r[2], r[3])),
                           f64_add(f64_add(r[4], r[5]), f64_add(r[6], r[7])))) :
               r \in {[j \in 0..7 |->
                          f64_sum_loop(a, lo + 8 + j, lo + n - (n % 8) - 1, 8, a[lo + j])]} })
    ELSE the({ f64_add(pairwise_sum(a, lo, n2), pairwise_sum(a, lo + n2, n - n2)) :
               n2 \in {(n \div 2) - ((n \div 2) % 8)} })

\* np.average(scores): the sum of the scores, which is exact, over their
\* number; the average of no score is nan
np_average(scores) == f64_div_int(f64_from_int(SumSeq(scores)), Len(scores))

\* the squared deviations (arr - arrmean)**2 of numpy's _var
squared_deviations(scores, arrmean) ==
    the({ [i \in 1..Len(scores) |-> sq[scores[i]]] :
          sq \in {[v \in Range(scores) |->
                      the({ f64_mul(d, d) : d \in {f64_sub(f64_from_int(v), arrmean)} })]} })

\* a variant that divides by n - 1: the sample standard deviation (ddof = 1)
np_std_ddof1(scores) ==
    the({ the({ f64_sqrt(v) : v \in {f64_div_int(s, Len(scores) - 1)} }) :
          s \in {the({ pairwise_sum(x, 1, Len(x)) :
                       x \in {squared_deviations(scores, np_average(scores))} })} })

\* np.std(scores): the root of the mean of the squared deviations
np_std(scores) ==
    the({ the({ f64_sqrt(v) : v \in {f64_div_int(s, Len(scores))} }) :
          s \in {the({ pairwise_sum(x, 1, Len(x)) :
                       x \in {squared_deviations(scores, np_average(scores))} })} })

\* thresh = np.average(scores) - 2 * np.std(scores)
threshold_of(scores) ==
    the({ f64_sub(avg, twice) :
          avg \in {np_average(scores)},
          twice \in {f64_mul(f64_from_int(2), np_std(scores))} })

\* score >= thresh; the threshold of an empty sample is nan, and no score
\* is >= nan
score_ge_thresh(score, thresh) ==
    the({ f64_le(thresh, x) : x \in {f64_from_int(score)} })

\* score < thresh; no score is < nan either
score_lt_thresh(score, thresh) ==
    the({ f64_less(x, thresh) : x \in {f64_from_int(score)} })

\* a variant of the filter that leaves the threshold out
accepted_any_score(score, thresh, read) == read # None

\* the filter of lines 184, 198 and 246: score >= thresh and read
accepted(score, thresh, read) == score_ge_thresh(score, thresh) /\ read # None

\* ------------------------------------------ paired-record synchronizer

\* misc.names_pair(id, qname) (spec 4.4): an identifier is (name, mate
\* suffix); two identifiers pair when they agree once the suffix is stripped
names_pair(id, qname) == id[1] = qname[1]

\* a variant that searches the whole barcode stream for each aligned record
scan_from_start(bc_fq, pos, qname) ==
    LET hits == {k \in 1..Len(bc_fq) : names_pair(bc_fq[k].id, qname)}
    IN IF hits = {} THEN 0 ELSE CHOOSE k \in hits : \A j \in hits : k <= j

\* a variant in which the StopIteration of next() ends the generator quietly
stop_iteration_ends_generator == "stopped"

\* line 161: next() on the exhausted iterator raises StopIteration inside
\* the generator, which Python (3.7 on) turns into a RuntimeError
stop_iteration_in_generator == "error"

RECURSIVE scan_forward(_, _, _)
\* next(rec for rec in bc_fq_iter if names_pair(rec.id, qname)): the
\* position of the first record at or after pos that pairs, 0 when the
\* barcode iterator is exhausted first
scan_forward(bc_fq, pos, qname) ==
    IF pos > Len(bc_fq) THEN 0
    ELSE IF names_pair(bc_fq[pos].id, qname) THEN pos
    ELSE scan_forward(bc_fq, pos + 1, qname)

RECURSIVE paired_from(_, _, _, _, _)
paired_from(bc_fq, p_bam, bc_pos, k, pairs) ==
    IF k > Len(p_bam) THEN [pairs |-> pairs, error |-> FALSE]
    ELSE LET m == scan_forward(bc_fq, bc_pos, p_bam[k].qname)
         IN IF m = 0
            THEN [pairs |-> pairs, error |-> stop_iteration_in_generator = "error"]
            ELSE paired_from(bc_fq, p_bam, m + 1, k + 1,
                             Append(pairs, <<bc_fq[m], p_bam[k]>>))

\* Everything gDNA_paired_recs_iterator(bc_fq_fpath, p_bam_fpath) yields,
\* and whether it ends in the error of an exhausted barcode stream
gDNA_paired_recs_iterator(bc_fq, p_bam) == paired_from(bc_fq, p_bam, 1, 1, <<>>)

\* --------------------------------------------------- chunked iterator

\* no exception
NoError == "no error"

RECURSIVE chunk_loop(_, _, _, _, _)
\* The loop of chunked_gDNA_paired_recs_tmp_files_iterator from index i
\* (0-based, as enumerate counts) with the pairs gathered so far in buf,
\* over what the synchronizer yields (it): the chunks the generator yields,
\* each named by the index i it is written under, and the exception that
\* ends it.  The synchronizer's RuntimeError comes out of the for statement;
\* line 231 reads i, which no iteration has bound when the stream is empty.
chunk_loop(it, chunksize, i, buf, yielded) ==
    IF i >= Len(it.pairs)
    THEN IF it.error
         THEN [chunks |-> yielded, error |-> "RuntimeError"]
         ELSE IF i = 0
         THEN [chunks |-> yielded, error |-> "UnboundLocalError"]
         ELSE \* after the loop i is the last index
              IF (i - 1) % chunksize # 0
              THEN [chunks |-> Append(yielded, [idx |-> i - 1, recs |-> buf]),
                    error |-> NoError]
              ELSE [chunks |-> yielded, error |-> NoError]
    ELSE LET buf2 == Append(buf, it.pairs[i + 1])
         IN IF i % chunksize = 0 /\ i > 0
            THEN chunk_loop(it, chunksize, i + 1, <<>>,
                            Append(yielded, [idx |-> i, recs |-> buf2]))
            ELSE chunk_loop(it, chunksize, i + 1, buf2, yielded)

\* all the chunks the generator yields, in order, and how it ends
chunked_gDNA_paired_recs_tmp_files_iterator(bc_fq_fpath, p_bam_fpath, chunksize) ==
    the({ chunk_loop(it, chunksize, 0, <<>>, <<>>) :
          it \in {gDNA_paired_recs_iterator(bc_fq_fpath, p_bam_fpath)} })

\* write_chunk: the files that hold chunk idx
chunk_in_files(idx) == {<<idx, "fq">>, <<idx, "bam">>}

chunk_out_file(idx) == <<idx, "parsed.bam">>

\* ------------------------------------------------------ tagging passes

\* "AA GTC CC G AA T": the layout of the first aligner, every piece exact
GoodRead == <<1, 1, 3, 5, 2, 2, 2, 3, 1, 1, 5>>

\* "AA GAA CC T AA T": the spacers mostly wrong, the barcodes exact
LowRead == <<1, 1, 3, 1, 1, 2, 2, 5, 1, 1, 5>>

\* "GG GTC CC G AA T": the first barcode two errors from every whitelist entry
UndecodableRead == <<3, 3, 3, 5, 2, 2, 2, 3, 1, 1, 5>>

Reads == {GoodRead, LowRead, UndecodableRead}

\* What process_bc_rec_and_p_read does with each read of Reads and an
\* aligned record without tags, worked out once
ProcessedReads ==
    [seq \in Reads |->
        process_bc_rec_and_p_read([id |-> <<0, 1>>, seq |-> seq],
                                  AlignedRead(<<0, 2>>), build_gDNA_bc_aligners)]

\* process_bc_rec_and_p_read on one pair of the stream, with the gDNA
\* aligners: looked up in ProcessedReads where that applies
process_pair(bc_rec, p_read) ==
    the({ [score |-> r.score,
           read |-> IF r.read = None THEN None
                    ELSE [p_read EXCEPT !.tags = r.read.tags],
           p_read |-> [p_read EXCEPT !.tags = r.p_read.tags]] :
          r \in {IF bc_rec.seq \in Reads /\ DOMAIN p_read.tags = {}
                 THEN ProcessedReads[bc_rec.seq]
                 ELSE process_bc_rec_and_p_read(bc_rec, p_read,
                                                build_gDNA_bc_aligners)} })

\* [process_bc_rec_and_p_read(bc_rec, p_read, ...) for bc_rec, p_read in pairs]
process_all(pairs) == [k \in 1..Len(pairs) |-> process_pair(pairs[k][1], pairs[k][2])]

RECURSIVE accepted_reads(_, _)
\* [read for score, read in results if score >= thresh and read]
accepted_reads(results, thresh) ==
    IF results = <<>> THEN <<>>
    ELSE (IF accepted(Head(results).score, thresh, Head(results).read)
          THEN <<Head(results).read>> ELSE <<>>)
         \o accepted_reads(Tail(results), thresh)

\* The sampling loop of lines 174-179 and 269-274: it appends record i and
\* then stops once i >= n_first_seqs
first_pairs(pairs) == SubSeq(pairs, 1, Min(Len(pairs), n_first_seqs + 1))

\* The sampling loop ends in the synchronizer's RuntimeError when the
\* barcode stream is exhausted before the loop has its n_first_seqs + 1 pairs
sampling_raises(it) == it.error /\ Len(it.pairs) <= n_first_seqs

\* lines 181-182 and 276-277
first_thresh(pairs) ==
    the({ threshold_of([k \in 1..Len(results) |-> results[k].score]) :
          results \in {process_all(first_pairs(pairs))} })

\* lines 168, 240 and 262 call build_gDNA_bc_aligners, a name the module
\* neither defines nor imports: the call raises NameError unless a caller
\* has bound the name in the module's namespace
builder_bound(names) == "build_gDNA_bc_aligners" \in names

\* process_chunk_of_reads: the records written to the chunk's parsed.bam
\* and the exception that ends the call, if any.  Line 240 is its first
\* statement after the argument is unpacked: when it raises, the parsed
\* bam is not created and the chunk's input files are not removed.
process_chunk_of_reads(names, thresh, chunk) ==
    IF ~builder_bound(names) THEN [out |-> <<>>, error |-> "NameError"]
    ELSE LET bc_chunk == [k \in 1..Len(chunk.recs) |-> chunk.recs[k][1]]
             p_chunk == [k \in 1..Len(chunk.recs) |-> chunk.recs[k][2]]
         IN the({ [out |-> accepted_reads(process_all(pairs), t),
                   error |-> NoError] :
                  pairs \in {gDNA_paired_recs_iterator(bc_chunk, p_chunk).pairs},
                  t \in {thresh} })

\* ================================================================ state

VARIABLES
    \* the names of the module's namespace that a caller has bound; the
    \* module itself binds none of them
    bound_names,
    \* the input files of one run of the tagging stage
    bc_fq,              \* the barcode fastq: records [id, seq]
    p_bam,              \* STAR's unsorted bam: records [qname, tags]
    \* serial_process_gDNA_fastqs
    ser_pc,             \* "idle", "first", "write", "continue", "done", "raised"
    ser_error,          \* the exception that ended the call, or "no error"
    first_scores_and_reads,
    ser_thresh,
    ser_i,              \* the index i of the second loop (0-based)
    ser_fh,             \* the records written to star_w_bc_fh
    \* parallel_process_gDNA_fastqs
    par_pc,             \* "idle", "islice", "imap", "exit", "cleanup", "done", "raised"
    par_error,          \* the exception that ended the call, or "no error"
    chunksize,
    threads,
    par_thresh,
    n_taken,            \* chunks taken from chunk_iter so far
    batch,              \* chunk_of_args_and_fpaths, with each task's status
    par_i,              \* the batch counter i
    par_fh,             \* the records written to star_w_bc_fh
    tmp_files,          \* the files in the temporary directory
    tmp_out_bam_fpath,  \* the last merged file, or None while unbound
    failed_chunks,      \* history: the indices of the chunks whose worker failed
    reordered,          \* history: a worker finished before one submitted earlier
    \* one gDNA_paired_recs_iterator, stepped
    sync_pc,            \* "idle", "iterating", "stopped", "error"
    bc_pos,             \* records consumed from bc_fq_iter
    p_pos,              \* aligned records fetched
    yielded,            \* the pairs yielded: (position in bc_fq, position in p_bam)
    \* one bc_and_sbc_counter_from_fastq
    norm_scores,        \* the norm scores of the records of the fastq file
    cnt_pc,             \* "idle", "sample", "filter", "done"
    cnt_thresh,
    cnt_i,              \* records read by the second loop
    cnt_kept,           \* the positions of the records the threshold let pass
    \* one gDNA_count_matrix
    input_bam,          \* the sorted alignment file: records [ref, tags]
    out_dirs,           \* the matrix folders that exist in output_dir
    mat_pc,             \* "idle", "start", "count", "done", "skipped"
    mat_pending,        \* the references whose result imap_unordered has not yielded
    mat_j,              \* the index j of enumerate
    M_reads_T,
    M_umis_T,
    mat_files,          \* the files written, by folder
    \* process_gDNA_fastqs, run on one output folder
    run_pc,             \* "idle", "start", "tag", "sort", "count_matrix", "raised"
    arguments,          \* [threads, chunksize]
    completed,
    out_dir_exists,     \* arguments.output_dir is there
    out_files,          \* the files of output_dir, by name
    run_stages,         \* history: the stages this run has executed
    run_error,          \* what ended the run, or "no error"
    runs,               \* the runs started so far
    finished_stages,    \* history: the stages that some run has carried through
    \* one correct_UMIs
    umi_in,             \* the sorted, indexed input file: records [qname, ref, tags]
    umi_pc,             \* "idle", "start", "rewrite", "done"
    umi_pending,        \* the references whose map imap_unordered has not yielded
    umi_i,              \* the index i of enumerate
    bam_out,            \* the records written to out_bam_fpath
    umi_order,          \* history: the references in the order their maps came
    \* one process_bc_rec_and_p_read
    al_seq,             \* str(bc_rec.seq)
    al_pc,              \* "idle", "start", "done"
    al_best,            \* raw_score, raw_pieces, best_aligner, corrected_pieces
    al_out,             \* the returned (score, read)
    \* one chunked_gDNA_paired_recs_tmp_files_iterator, stepped
    ck_pairs,           \* the synchronized stream it reads
    ck_size,            \* chunksize
    ck_pc,              \* "idle", "loop", "yielded", "last", "done", "error"
    ck_n,               \* the pairs the for loop has taken; i is ck_n - 1
    ck_chunk,           \* bc_chunk and p_chunk, as one list of pairs
    ck_yielded          \* the chunks yielded so far: [idx, recs]

\* the module's namespace and the files of the run: no step changes them
inputs == <<bound_names, bc_fq, p_bam>>

ser_vars == <<ser_pc, ser_error, first_scores_and_reads, ser_thresh, ser_i, ser_fh>>

par_vars == <<par_pc, par_error, chunksize, threads, par_thresh, n_taken, batch, par_i,
              par_fh, tmp_files, tmp_out_bam_fpath, failed_chunks, reordered>>

sync_vars == <<sync_pc, bc_pos, p_pos, yielded>>

cnt_vars == <<norm_scores, cnt_pc, cnt_thresh, cnt_i, cnt_kept>>

mat_vars == <<input_bam, out_dirs, mat_pc, mat_pending, mat_j, M_reads_T,
              M_umis_T, mat_files>>

run_vars == <<run_pc, arguments, completed, out_dir_exists, out_files, run_stages,
              run_error, runs, finished_stages>>

umi_vars == <<umi_in, umi_pc, umi_pending, umi_i, bam_out, umi_order>>

al_vars == <<al_seq, al_pc, al_best, al_out>>

ck_vars == <<ck_pairs, ck_size, ck_pc, ck_n, ck_chunk, ck_yielded>>

\* what the tagging stage leaves alone
outside_tagging == <<sync_vars, cnt_vars, mat_vars, run_vars, umi_vars, al_vars,
      ck_vars>>

\* what the synchronizer leaves alone
outside_sync == <<ser_vars, par_vars, cnt_vars, mat_vars, run_vars, umi_vars, al_vars,
      ck_vars>>

\* what the counter leaves alone
outside_counter ==
    <<inputs, ser_vars, par_vars, sync_vars, mat_vars, run_vars, umi_vars, al_vars,
      ck_vars>>

\* what the matrix builder leaves alone
outside_matrix ==
    <<inputs, ser_vars, par_vars, sync_vars, cnt_vars, run_vars, umi_vars, al_vars,
      ck_vars>>

\* what a run of process_gDNA_fastqs leaves alone
outside_run ==
    <<inputs, ser_vars, par_vars, sync_vars, cnt_vars, mat_vars, umi_vars, al_vars,
      ck_vars>>

\* what correct_UMIs leaves alone
outside_umi ==
    <<inputs, ser_vars, par_vars, sync_vars, cnt_vars, mat_vars, run_vars,
      al_vars, ck_vars>>

\* what one process_bc_rec_and_p_read leaves alone
outside_al ==
    <<inputs, ser_vars, par_vars, sync_vars, cnt_vars, mat_vars, run_vars,
      umi_vars, ck_vars>>

\* what the chunk generator leaves alone
outside_ck ==
    <<inputs, ser_vars, par_vars, sync_vars, cnt_vars, mat_vars, run_vars,
      umi_vars, al_vars>>

vars == <<inputs, ser_vars, par_vars, sync_vars, cnt_vars, mat_vars, run_vars,
          umi_vars, al_vars, ck_vars>>

\* ----------------------------------------------------------- the inputs

\* the streams of at most MaxLen reads, the empty one among them
Streams == UNION {[1..n -> Reads] : n \in 0..MaxLen}

\* The streams that are as long as the threshold sample, or one longer;
\* all but MaxOdd of their reads are GoodRead
SampledStreams ==
    UNION {{s \in [1..n -> Reads] :
               Cardinality({k \in 1..n : s[k] # GoodRead}) <= MaxOdd}
           : n \in (n_first_seqs + 1)..(n_first_seqs + 2)}

ChunkSizes == 1..MaxChunk

ThreadCounts == 2..MaxThreads

\* what the synchronizer yields on the files of the run, and its pairs
PairsIt == gDNA_paired_recs_iterator(bc_fq, p_bam)

Pairs == PairsIt.pairs

\* no tagging function has been called; where none is going to be, the
\* module's namespace is as the module leaves it
TaggingIdle(pc) ==
    /\ pc = "idle" => bound_names = {}
    /\ ser_pc = pc
    /\ ser_error = NoError
    /\ par_error = NoError
    /\ first_scores_and_reads = <<>>
    /\ ser_thresh = None
    /\ ser_i = 0
    /\ ser_fh = <<>>
    /\ par_pc = "idle"
    /\ chunksize = 0
    /\ threads = 0
    /\ par_thresh = None
    /\ n_taken = 0
    /\ batch = <<>>
    /\ par_i = 0
    /\ par_fh = <<>>
    /\ tmp_files = {}
    /\ tmp_out_bam_fpath = None
    /\ failed_chunks = {}
    /\ reordered = FALSE

\* no iterator is being stepped
SyncIdle ==
    /\ sync_pc = "idle"
    /\ bc_pos = 0
    /\ p_pos = 0
    /\ yielded = <<>>

CounterIdle ==
    /\ norm_scores = <<>>
    /\ cnt_pc = "idle"
    /\ cnt_thresh = None
    /\ cnt_i = 0
    /\ cnt_kept = <<>>

MatrixIdle ==
    /\ input_bam = <<>>
    /\ out_dirs = {}
    /\ mat_pc = "idle"
    /\ mat_pending = {}
    /\ mat_j = 0
    /\ M_reads_T = <<>>
    /\ M_umis_T = <<>>
    /\ mat_files = <<>>

RunIdle ==
    /\ run_pc = "idle"
    /\ arguments = <<>>
    /\ completed = 0
    /\ out_dir_exists = FALSE
    /\ out_files = <<>>
    /\ run_stages = <<>>
    /\ run_error = "no error"
    /\ runs = 0
    /\ finished_stages = {}

UmiIdle ==
    /\ umi_in = <<>>
    /\ umi_pc = "idle"
    /\ umi_pending = {}
    /\ umi_i = 0
    /\ bam_out = <<>>
    /\ umi_order = <<>>

AlIdle ==
    /\ al_seq = <<>>
    /\ al_pc = "idle"
    /\ al_best = <<>>
    /\ al_out = <<>>

ChunkIdle ==
    /\ ck_pairs = <<>>
    /\ ck_size = 0
    /\ ck_pc = "idle"
    /\ ck_n = 0
    /\ ck_chunk = <<>>
    /\ ck_yielded = <<>>

\* line 166, the entry of a tagging function.  The function is called in
\* the module as it is, or after the caller has bound a builder of the
\* aligners in the module's namespace.  The files of the run: the barcode
\* fastq holds the reads of a stream, and STAR's bam an aligned record for
\* each, in the same order; or (lost) the last aligned record has a name
\* that no barcode record carries.
InitPipeline(streams) ==
    /\ ChunkIdle
    /\ AlIdle
    /\ UmiIdle
    /\ bound_names \in SUBSET {"build_gDNA_bc_aligners"}
    /\ \E s \in streams, lost \in BOOLEAN :
          /\ lost => Len(s) > 0
          /\ bc_fq = [k \in 1..Len(s) |-> [id |-> <<k, 1>>, seq |-> s[k]]]
          /\ p_bam = [k \in 1..Len(s) |->
                         AlignedRead(<<IF lost /\ k = Len(s) THEN k + 1 ELSE k, 2>>)]
    /\ TaggingIdle("first")
    /\ SyncIdle
    /\ CounterIdle
    /\ MatrixIdle
    /\ RunIdle

\* ------------------------------------------- serial_process_gDNA_fastqs

\* lines 167-182: the aligners and the decoders are built, then the
\* sampling loop and the threshold.  Line 168 raises NameError when the
\* builder is not bound: the synchronizer is never started.
SerialFirstPass ==
    /\ ser_pc = "first"
    /\ IF ~builder_bound(bound_names)
       THEN /\ ser_pc' = "raised"
            /\ ser_error' = "NameError"
            /\ UNCHANGED <<first_scores_and_reads, ser_thresh>>
       ELSE IF sampling_raises(PairsIt)
       THEN /\ ser_pc' = "raised"
            /\ ser_error' = "RuntimeError"
            /\ UNCHANGED <<first_scores_and_reads, ser_thresh>>
       ELSE /\ first_scores_and_reads' = process_all(first_pairs(Pairs))
            /\ ser_thresh' = first_thresh(Pairs)
            /\ ser_pc' = "write"
            /\ UNCHANGED ser_error
    /\ UNCHANGED <<outside_tagging, inputs, ser_i, ser_fh, par_vars>>

\* lines 184-187: the sampled records are written, filtered
SerialWriteFirst ==
    /\ ser_pc = "write"
    /\ ser_fh' = ser_fh \o accepted_reads(first_scores_and_reads, ser_thresh)
    /\ ser_i' = 0
    /\ ser_pc' = "continue"
    /\ UNCHANGED <<outside_tagging, inputs, ser_error, first_scores_and_reads, ser_thresh,
                   par_vars>>

\* a variant that lets the last sampled pair through to the second pass
before_last_sampled(i) == i < n_first_seqs

\* line 193: the pairs the second loop passes over, the sampling loop
\* having handled them
handled_by_sampling(i) == i <= n_first_seqs

\* lines 190-200: one record of the second loop over a fresh iterator
SerialContinue ==
    /\ ser_pc = "continue"
    /\ ser_i < Len(Pairs)
    /\ LET r == process_pair(Pairs[ser_i + 1][1], Pairs[ser_i + 1][2])
       IN ser_fh' = IF handled_by_sampling(ser_i) THEN ser_fh
                    ELSE IF accepted(r.score, ser_thresh, r.read)
                         THEN Append(ser_fh, r.read) ELSE ser_fh
    /\ ser_i' = ser_i + 1
    /\ UNCHANGED <<outside_tagging, inputs, ser_pc, ser_error, first_scores_and_reads,
                   ser_thresh, par_vars>>

\* The second loop ends: in the synchronizer's RuntimeError, or with no
\* aligned record left.  Line 201 then reads i, which no iteration has
\* bound when the stream is empty (UnboundLocalError); else the function
\* returns.
SerialReturn ==
    /\ ser_pc = "continue"
    /\ ser_i = Len(Pairs)
    /\ ser_error' = IF PairsIt.error THEN "RuntimeError"
                    ELSE IF Len(Pairs) = 0 THEN "UnboundLocalError"
                    ELSE NoError
    /\ ser_pc' = IF PairsIt.error \/ Len(Pairs) = 0 THEN "raised" ELSE "done"
    /\ UNCHANGED <<outside_tagging, inputs, first_scores_and_reads, ser_thresh, ser_i,
                   ser_fh, par_vars>>

\* ----------------------------------------- parallel_process_gDNA_fastqs

\* the worker of a task is at work: it has not opened its parsed bam
\* ("running"), has opened it ("opened"), or has removed the chunk's fastq
\* as well ("fq_removed")
at_work(status) == status \in {"running", "opened", "fq_removed"}

\* a variant that behaves as pool.imap_unordered: any ended task is next
imap_unordered_next(tasks) ==
    {k \in 1..Len(tasks) : tasks[k].status \in {"done", "failed"}}

\* pool.imap: the results come in submission order, so the next one is
\* that of the first task not yet consumed, once that task has ended
imap_next(tasks) ==
    LET open == {k \in 1..Len(tasks) : tasks[k].status # "merged"}
    IN {k \in open : (\A j \in open : k <= j) /\ ~at_work(tasks[k].status)}

\* the iteration re-raises the exception of a task that failed
result_raises(status) == status = "failed"

\* a variant that takes every chunk the generator still has, as one imap
\* over the whole generator would
islice_to_the_end(chunk_iter, consumed, n) ==
    SubSeq(chunk_iter, consumed + 1, Len(chunk_iter))

\* line 313: itertools.islice(chunk_iter, n) on a generator of which
\* `consumed` chunks have been taken: the next n chunks, or those left
islice(chunk_iter, consumed, n) ==
    SubSeq(chunk_iter, consumed + 1, Min(Len(chunk_iter), consumed + n))

\* lines 261-281: the aligners are built, the pool and the temporary
\* directory are entered, the threshold is computed from the sampled
\* prefix.  Line 262 raises NameError when the builder is not bound: the
\* with statement is never entered.
ParallelStart(c, t) ==
    /\ par_pc = "idle"
    /\ ser_pc \in {"done", "raised"}
    /\ chunksize' = c
    /\ threads' = t
    /\ IF ~builder_bound(bound_names)
       THEN par_pc' = "raised" /\ par_error' = "NameError" /\ UNCHANGED par_thresh
       ELSE IF sampling_raises(PairsIt)
       THEN par_pc' = "raised" /\ par_error' = "RuntimeError" /\ UNCHANGED par_thresh
       ELSE par_thresh' = first_thresh(Pairs) /\ par_pc' = "islice" /\ UNCHANGED par_error
    /\ UNCHANGED <<outside_tagging, inputs, ser_vars, n_taken, batch, par_i, par_fh,
                   tmp_files, tmp_out_bam_fpath, failed_chunks, reordered>>

\* line 313: islice takes the next `threads` chunks from the generator,
\* which writes the files of each; lines 314-315: none left ends the loop.
\* When the generator raises before it has yielded them all, the exception
\* comes out of list(): the chunks taken in this call are never processed,
\* and the with block is left, which removes their files.
ParallelIslice ==
    /\ par_pc = "islice"
    /\ LET all == chunked_gDNA_paired_recs_tmp_files_iterator(bc_fq, p_bam, chunksize)
           taken == islice(all.chunks, n_taken, threads)
       IN IF all.error # NoError /\ n_taken + threads > Len(all.chunks)
          THEN /\ n_taken' = Len(all.chunks)
               /\ par_pc' = "raised"
               /\ par_error' = all.error
               /\ tmp_files' = {}
               /\ UNCHANGED batch
          ELSE /\ n_taken' = n_taken + Len(taken)
               /\ UNCHANGED par_error
               /\ IF taken = <<>>
                  THEN /\ par_pc' = "exit"
                       /\ UNCHANGED <<batch, tmp_files>>
                  ELSE /\ par_pc' = "imap"
                       /\ batch' = [k \in 1..Len(taken) |->
                                       [idx |-> taken[k].idx, recs |-> taken[k].recs,
                                        status |-> "running"]]
                       /\ tmp_files' = tmp_files \cup
                             UNION {chunk_in_files(taken[k].idx) : k \in 1..Len(taken)}
    /\ UNCHANGED <<outside_tagging, inputs, ser_vars, chunksize, threads, par_thresh, par_i,
                   par_fh, tmp_out_bam_fpath, failed_chunks, reordered>>

\* line 243 in a worker: the parsed bam of the chunk is created; the
\* chunk's input files are still there
WorkerOpens(k) ==
    /\ par_pc = "imap"
    /\ k \in 1..Len(batch)
    /\ batch[k].status = "running"
    /\ batch' = [batch EXCEPT ![k].status = "opened"]
    /\ tmp_files' = tmp_files \cup {chunk_out_file(batch[k].idx)}
    /\ UNCHANGED <<outside_tagging, inputs, ser_vars, par_pc, par_error, chunksize, threads,
                   par_thresh, n_taken, par_i, par_fh, tmp_out_bam_fpath, failed_chunks,
                   reordered>>

\* lines 244-248 in a worker: the records are written, the parsed bam is
\* closed, the chunk's fastq is removed
WorkerRemovesFq(k) ==
    /\ par_pc = "imap"
    /\ k \in 1..Len(batch)
    /\ batch[k].status = "opened"
    /\ batch' = [batch EXCEPT ![k].status = "fq_removed"]
    /\ tmp_files' = tmp_files \ {<<batch[k].idx, "fq">>}
    /\ UNCHANGED <<outside_tagging, inputs, ser_vars, par_pc, par_error, chunksize, threads,
                   par_thresh, n_taken, par_i, par_fh, tmp_out_bam_fpath, failed_chunks,
                   reordered>>

\* lines 249-250 in a worker: the chunk's bam is removed and
\* process_chunk_of_reads returns
WorkerReturns(k) ==
    /\ par_pc = "imap"
    /\ k \in 1..Len(batch)
    /\ batch[k].status = "fq_removed"
    /\ batch' = [batch EXCEPT ![k].status = "done"]
    /\ tmp_files' = tmp_files \ {<<batch[k].idx, "bam">>}
    /\ reordered' = (reordered \/ \E j \in 1..(k - 1) : at_work(batch[j].status))
    /\ UNCHANGED <<outside_tagging, inputs, ser_vars, par_pc, par_error, chunksize, threads,
                   par_thresh, n_taken, par_i, par_fh, tmp_out_bam_fpath, failed_chunks>>

\* process_chunk_of_reads raises in a worker, before or after it opened the
\* parsed bam; the files of the chunk stay as they are
WorkerRaises(k) ==
    /\ par_pc = "imap"
    /\ k \in 1..Len(batch)
    /\ batch[k].status \in {"running", "opened"}
    /\ Cardinality(failed_chunks) < MaxFailures
    /\ batch' = [batch EXCEPT ![k].status = "failed"]
    /\ failed_chunks' = failed_chunks \cup {batch[k].idx}
    /\ reordered' = (reordered \/ \E j \in 1..(k - 1) : at_work(batch[j].status))
    /\ UNCHANGED <<outside_tagging, inputs, ser_vars, par_pc, par_error, chunksize, threads,
                   par_thresh, n_taken, par_i, par_fh, tmp_files, tmp_out_bam_fpath>>

\* lines 316-325: the next result of imap is merged into the output and
\* its file removed; after the last one of the batch, i += 1
ParallelMerge(k) ==
    /\ par_pc = "imap"
    /\ k \in imap_next(batch)
    /\ ~result_raises(batch[k].status)
    /\ par_fh' = par_fh \o (IF batch[k].status = "done"
                            THEN process_chunk_of_reads(bound_names, par_thresh,
                                                        batch[k]).out
                            ELSE <<>>)
    /\ tmp_files' = tmp_files \ {chunk_out_file(batch[k].idx)}
    /\ tmp_out_bam_fpath' = chunk_out_file(batch[k].idx)
    /\ batch' = [batch EXCEPT ![k].status = "merged"]
    /\ IF \A j \in 1..Len(batch) : j # k => batch[j].status = "merged"
       THEN par_i' = par_i + 1 /\ par_pc' = "islice"
       ELSE UNCHANGED <<par_i, par_pc>>
    /\ UNCHANGED <<outside_tagging, inputs, ser_vars, par_error, chunksize, threads,
                   par_thresh, n_taken, failed_chunks, reordered>>

\* The next result of imap is an exception: it leaves the with block of
\* lines 265-266.  The temporary directory is left first: its cleanup lists
\* the directory and unlinks every file it listed.  The pool is left after
\* it, so the workers of the batch that have not ended are still at work.
ParallelRaise(k) ==
    /\ par_pc = "imap"
    /\ k \in imap_next(batch)
    /\ result_raises(batch[k].status)
    /\ par_pc' = "cleanup"
    /\ tmp_files' = {}
    /\ UNCHANGED <<outside_tagging, inputs, ser_vars, par_error, chunksize, threads,
                   par_thresh, n_taken, batch, par_i, par_fh, tmp_out_bam_fpath,
                   failed_chunks, reordered>>

\* line 243 in a worker that is still at work while the directory is being
\* cleaned up: it opens its parsed bam after the directory was listed
WorkerOpensLate(k) ==
    /\ par_pc = "cleanup"
    /\ k \in 1..Len(batch)
    /\ batch[k].status = "running"
    /\ chunk_out_file(batch[k].idx) \notin tmp_files
    /\ tmp_files' = tmp_files \cup {chunk_out_file(batch[k].idx)}
    /\ UNCHANGED <<outside_tagging, inputs, ser_vars, par_pc, par_error, chunksize, threads,
                   par_thresh, n_taken, batch, par_i, par_fh, tmp_out_bam_fpath,
                   failed_chunks, reordered>>

\* The cleanup ends with rmdir.  On a directory that is not empty it fails
\* and leaves the directory with its files: TemporaryDirectory.__exit__
\* raises OSError (ENOTEMPTY) in place of the worker's exception, which is
\* kept as its __context__ only.  Then Pool.__exit__ terminates the workers
\* and the exception leaves the function.
ParallelTerminate ==
    /\ par_pc = "cleanup"
    /\ par_pc' = "raised"
    /\ par_error' = IF tmp_files = {} THEN "exception of a worker"
                    ELSE "OSError: Directory not empty"
    /\ batch' = [j \in 1..Len(batch) |->
                    IF at_work(batch[j].status)
                    THEN [batch[j] EXCEPT !.status = "terminated"] ELSE batch[j]]
    /\ UNCHANGED <<outside_tagging, inputs, ser_vars, chunksize, threads, par_thresh,
                   n_taken, par_i, par_fh, tmp_files, tmp_out_bam_fpath, failed_chunks,
                   reordered>>

\* The loop ended: the with block is left, and line 327 reads
\* tmp_out_bam_fpath, which is unbound (UnboundLocalError) when no chunk
\* was merged
ParallelExit ==
    /\ par_pc = "exit"
    /\ tmp_files' = {}
    /\ par_pc' = IF tmp_out_bam_fpath = None THEN "raised" ELSE "done"
    /\ par_error' = IF tmp_out_bam_fpath = None THEN "UnboundLocalError" ELSE NoError
    /\ UNCHANGED <<outside_tagging, inputs, ser_vars, chunksize, threads, par_thresh,
                   n_taken, batch, par_i, par_fh, tmp_out_bam_fpath, failed_chunks,
                   reordered>>

Next ==
    \/ SerialFirstPass
    \/ SerialWriteFirst
    \/ SerialContinue
    \/ SerialReturn
    \/ \E c \in ChunkSizes, t \in ThreadCounts : ParallelStart(c, t)
    \/ ParallelIslice
    \/ \E k \in 1..MaxThreads : WorkerOpens(k)
    \/ \E k \in 1..MaxThreads : WorkerRemovesFq(k)
    \/ \E k \in 1..MaxThreads : WorkerReturns(k)
    \/ \E k \in 1..MaxThreads : WorkerRaises(k)
    \/ \E k \in 1..MaxThreads : ParallelMerge(k)
    \/ \E k \in 1..MaxThreads : ParallelRaise(k)
    \/ \E k \in 1..MaxThreads : WorkerOpensLate(k)
    \/ ParallelTerminate
    \/ ParallelExit

\* The tagging stage on every short stream, with every interleaving of the
\* workers and their failures.  The serial function runs first and the
\* parallel one after it, on the same files, each with its own handle.
Spec == InitPipeline(Streams) /\ [][Next]_vars

\* The tagging stage on the streams that reach past the threshold sample:
\* two threads, no worker fails
NextSampled ==
    \/ SerialFirstPass
    \/ SerialWriteFirst
    \/ SerialContinue
    \/ SerialReturn
    \/ \E c \in ChunkSizes : ParallelStart(c, 2)
    \/ ParallelIslice
    \/ \E k \in 1..MaxThreads : WorkerOpens(k)
    \/ \E k \in 1..MaxThreads : WorkerRemovesFq(k)
    \/ \E k \in 1..MaxThreads : WorkerReturns(k)
    \/ \E k \in 1..MaxThreads : ParallelMerge(k)
    \/ ParallelExit

SpecSampled == InitPipeline(SampledStreams) /\ [][NextSampled]_vars

\* ------------------------------------- gDNA_paired_recs_iterator, stepped

\* the read names of a file, in order
NamesOf(ids) == [k \in 1..Len(ids) |-> ids[k][1]]

InitSync ==
    /\ ChunkIdle
    /\ AlIdle
    /\ UmiIdle
    /\ \E n \in 1..MaxBc, m \in 0..MaxBc :
          \E b \in [1..n -> 1..MaxNames], a \in [1..m -> 1..MaxNames] :
             /\ bc_fq = [k \in 1..n |-> [id |-> <<b[k], 1>>, seq |-> GoodRead]]
             /\ p_bam = [k \in 1..m |-> AlignedRead(<<a[k], 2>>)]
    /\ TaggingIdle("idle")
    /\ CounterIdle
    /\ MatrixIdle
    /\ RunIdle
    /\ sync_pc = "iterating"
    /\ bc_pos = 0
    /\ p_pos = 0
    /\ yielded = <<>>

\* lines 160-162: the next aligned record is fetched, the barcode iterator
\* is advanced to the first record that pairs with it, the pair is yielded
SyncYield ==
    /\ sync_pc = "iterating"
    /\ p_pos < Len(p_bam)
    /\ LET m == scan_forward(bc_fq, bc_pos + 1, p_bam[p_pos + 1].qname)
       IN /\ m # 0
          /\ bc_pos' = m
          /\ yielded' = Append(yielded, <<m, p_pos + 1>>)
    /\ p_pos' = p_pos + 1
    /\ UNCHANGED <<inputs, outside_sync, sync_pc>>

\* line 161: the barcode iterator is exhausted before a record pairs
SyncExhausted ==
    /\ sync_pc = "iterating"
    /\ p_pos < Len(p_bam)
    /\ scan_forward(bc_fq, bc_pos + 1, p_bam[p_pos + 1].qname) = 0
    /\ bc_pos' = Len(bc_fq)
    /\ p_pos' = p_pos + 1
    /\ sync_pc' = stop_iteration_in_generator
    /\ UNCHANGED <<inputs, outside_sync, yielded>>

\* line 160: no aligned record is left, the generator returns
SyncStop ==
    /\ sync_pc = "iterating"
    /\ p_pos = Len(p_bam)
    /\ sync_pc' = "stopped"
    /\ UNCHANGED <<inputs, outside_sync, bc_pos, p_pos, yielded>>

NextSync == SyncYield \/ SyncExhausted \/ SyncStop

\* one gDNA_paired_recs_iterator over every pair of short files
SpecSync == InitSync /\ [][NextSync]_vars

\* ------------------------------------- count.py: the threshold of the counter

\* the norm scores a record of the fastq file can carry
NormScores == {-45, -44, 10, 100}

\* count.py:121 (100000 in the code): the records the sample is taken from
norm_score_sample_size == MaxSample

InitCounter ==
    /\ ChunkIdle
    /\ AlIdle
    /\ UmiIdle
    /\ \E n \in 1..(norm_score_sample_size + 1) :
          norm_scores \in [1..n -> NormScores]
    /\ bc_fq = <<>>
    /\ p_bam = <<>>
    /\ TaggingIdle("idle")
    /\ SyncIdle
    /\ MatrixIdle
    /\ RunIdle
    /\ cnt_pc = "sample"
    /\ cnt_thresh = None
    /\ cnt_i = 0
    /\ cnt_kept = <<>>

\* count.py:120-125: the sample is the first records of the file, the
\* threshold its mean minus twice its deviation
norm_scores_sample(scores) ==
    SubSeq(scores, 1, Min(Len(scores), norm_score_sample_size))

CounterThreshold ==
    /\ cnt_pc = "sample"
    /\ cnt_thresh' = threshold_of(norm_scores_sample(norm_scores))
    /\ cnt_pc' = "filter"
    /\ UNCHANGED <<outside_counter, norm_scores, cnt_i, cnt_kept>>

\* count.py:129-132: a record whose norm score is below the threshold is
\* passed over
CounterSkip ==
    /\ cnt_pc = "filter"
    /\ cnt_i < Len(norm_scores)
    /\ score_lt_thresh(norm_scores[cnt_i + 1], cnt_thresh)
    /\ cnt_i' = cnt_i + 1
    /\ UNCHANGED <<outside_counter, norm_scores, cnt_pc, cnt_thresh, cnt_kept>>

\* count.py:133-135: any other record goes on to the barcode parser
CounterKeep ==
    /\ cnt_pc = "filter"
    /\ cnt_i < Len(norm_scores)
    /\ ~score_lt_thresh(norm_scores[cnt_i + 1], cnt_thresh)
    /\ cnt_i' = cnt_i + 1
    /\ cnt_kept' = Append(cnt_kept, cnt_i + 1)
    /\ UNCHANGED <<outside_counter, norm_scores, cnt_pc, cnt_thresh>>

\* count.py:136
CounterReturn ==
    /\ cnt_pc = "filter"
    /\ cnt_i = Len(norm_scores)
    /\ cnt_pc' = "done"
    /\ UNCHANGED <<outside_counter, norm_scores, cnt_thresh, cnt_i, cnt_kept>>

NextCounter == CounterThreshold \/ CounterSkip \/ CounterKeep \/ CounterReturn

\* one bc_and_sbc_counter_from_fastq over every short file of norm scores
SpecThresh == InitCounter /\ [][NextCounter]_vars

\* ------------------------------------------------------ gDNA_count_matrix

\* the character code of a base, and of a string of bases
ord(base) == CASE base = 1 -> 65 [] base = 2 -> 67 [] base = 3 -> 71
               [] base = 4 -> 78 [] base = 5 -> 84

chars(s) == [k \in 1..Len(s) |-> ord(s[k])]

RECURSIVE digits(_)
\* f'{n:d}'
digits(n) == IF n < 10 THEN <<48 + n>> ELSE digits(n \div 10) \o <<48 + (n % 10)>>

\* lines 353-358: f'{bc}:{filler_len:d}:{sbc}', the tag CB being
\* f'{bc1}.{bc2}' and the tag FB f'{commonseq1}.{commonseq2}'
build_complete_bc(read) ==
    LET bc == read.tags["CB"]
        filler == read.tags["FB"]
        filler_len == Len(filler[1])
        sbc == read.tags["SB"]
    IN chars(bc[1]) \o <<46>> \o chars(bc[2]) \o <<58>> \o digits(filler_len)
       \o <<58>> \o chars(sbc)

RECURSIVE sorted_descending(_)
\* a variant that lists the greatest string first
sorted_descending(S) ==
    IF S = {} THEN <<>>
    ELSE LET m == CHOOSE x \in S : \A y \in S \ {x} : StrLess(y, x)
         IN <<m>> \o sorted_descending(S \ {m})

RECURSIVE sorted(_)
\* sorted(set of strings)
sorted(S) ==
    IF S = {} THEN <<>>
    ELSE LET m == CHOOSE x \in S : \A y \in S \ {x} : StrLess(x, y)
         IN <<m>> \o sorted(S \ {m})

\* bamfile.references: the references the header declares, in its order
reference_names == [j \in 1..MaxRefs |-> <<"chr", j>>]

\* lines 381-385
sorted_complete_bcs(bam) ==
    sorted({build_complete_bc(bam[k]) : k \in 1..Len(bam)})

\* line 386: the 0-based index of a complete barcode
i_given_complete_bc(bam, comp_bc) ==
    (CHOOSE i \in 1..Len(sorted_complete_bcs(bam)) :
        sorted_complete_bcs(bam)[i] = comp_bc) - 1

\* AlignmentFile.fetch(ref): the positions of the records of a reference
fetch(bam, ref) == {k \in 1..Len(bam) : bam[k].ref = ref}

\* lines 360-365: the reads counted by complete barcode and by UB
count_parallel_wrapper(ref, bam) ==
    LET recs == fetch(bam, ref)
        bcs == {build_complete_bc(bam[k]) : k \in recs}
        of_bc(b) == {k \in recs : build_complete_bc(bam[k]) = b}
    IN [b \in bcs |->
           [u \in {bam[k].tags["UB"] : k \in of_bc(b)} |->
               Cardinality({k \in of_bc(b) : bam[k].tags["UB"] = u})]]

\* lines 395-396: lil_matrix((rows, cols), dtype=int)
lil_matrix(rows, cols) == [e \in (0..(rows - 1)) \X (0..(cols - 1)) |-> 0]

RECURSIVE SumOver(_, _)
\* the sum of the values of f over the set D
SumOver(f, D) ==
    IF D = {} THEN 0
    ELSE LET x == CHOOSE x \in D : TRUE IN f[x] + SumOver(f, D \ {x})

\* the folders of lines 371-372
raw_reads_output_dir == "raw_reads_bc_matrix"
raw_umis_output_dir == "raw_umis_bc_matrix"

\* the tags of the records of a sorted alignment file: the cell barcode
\* and the filler differ from one kind to the next
MatrixTagKinds ==
    << [c |-> 1, f |-> 1], [c |-> 1, f |-> 2], [c |-> 2, f |-> 1] >>

\* a record of reference j, of tag kind t, with the corrected UMI u
MatrixRead(j, t, u) ==
    [ref |-> reference_names[j],
     tags |-> [tag \in {"CB", "FB", "SB", "UB"} |->
                 CASE tag = "CB" -> <<barcode_whitelist[MatrixTagKinds[t].c],
                                      barcode_whitelist[1]>>
                   [] tag = "FB" -> <<commonseq1_options[MatrixTagKinds[t].f],
                                      commonseq2_gDNA>>
                   [] tag = "SB" -> sample_barcode_whitelist[1]
                   [] tag = "UB" -> <<u>>]]

\* The records a sorted alignment file is made of, by position: the
\* reference first, as samtools sort leaves them
MatrixReads ==
    [p \in 1..(MaxRefs * 6) |->
        MatrixRead(((p - 1) \div 6) + 1, (((p - 1) % 6) \div 2) + 1, ((p - 1) % 2) + 1)]

\* the sorted files of n records: their positions never decrease
SortedFiles(n) ==
    {[k \in 1..n |-> MatrixReads[f[k]]] :
        f \in {g \in [1..n -> 1..Len(MatrixReads)] :
                  \A k \in 1..(n - 1) : g[k] <= g[k + 1]}}

InitMatrix ==
    /\ ChunkIdle
    /\ AlIdle
    /\ UmiIdle
    /\ \E n \in 0..MaxRecs : input_bam \in SortedFiles(n)
    /\ out_dirs \in SUBSET {raw_reads_output_dir, raw_umis_output_dir}
    /\ bc_fq = <<>>
    /\ p_bam = <<>>
    /\ TaggingIdle("idle")
    /\ SyncIdle
    /\ CounterIdle
    /\ RunIdle
    /\ mat_pc = "start"
    /\ mat_pending = {}
    /\ mat_j = 0
    /\ M_reads_T = <<>>
    /\ M_umis_T = <<>>
    /\ mat_files = <<>>

\* a variant that looks for the first folder only
reads_folder_exists(dirs) == raw_reads_output_dir \in dirs

\* lines 373-374: whether the loop meets a folder that exists
some_folder_exists(dirs) ==
    \E out_dir \in {raw_reads_output_dir, raw_umis_output_dir} : out_dir \in dirs

\* lines 373-378, a folder exists: the one before it has been made, and
\* the function returns
MatrixSkip ==
    /\ mat_pc = "start"
    /\ some_folder_exists(out_dirs)
    /\ out_dirs' = IF raw_reads_output_dir \in out_dirs
                   THEN out_dirs
                   ELSE out_dirs \cup {raw_reads_output_dir}
    /\ mat_pc' = "skipped"
    /\ UNCHANGED <<outside_matrix, input_bam, mat_pending, mat_j, M_reads_T,
                   M_umis_T, mat_files>>

\* lines 373-397: both folders are made, the barcodes are listed, the
\* matrices are empty and every reference is handed to the pool
MatrixBegin ==
    /\ mat_pc = "start"
    /\ ~some_folder_exists(out_dirs)
    /\ out_dirs' = {raw_reads_output_dir, raw_umis_output_dir}
    /\ M_reads_T' = lil_matrix(Len(reference_names), Len(sorted_complete_bcs(input_bam)))
    /\ M_umis_T' = lil_matrix(Len(reference_names), Len(sorted_complete_bcs(input_bam)))
    /\ mat_pending' = Range(reference_names)
    /\ mat_j' = 0
    /\ mat_pc' = "count"
    /\ UNCHANGED <<outside_matrix, input_bam, mat_files>>

\* lines 398-405: imap_unordered yields the result of the worker that
\* finished next, enumerate numbers it j, and its counts go to row j
MatrixResult(ref) ==
    /\ mat_pc = "count"
    /\ ref \in mat_pending
    /\ LET result == count_parallel_wrapper(ref, input_bam)
           j == mat_j
           at(i) == {b \in DOMAIN result : i_given_complete_bc(input_bam, b) = i}
       IN /\ M_reads_T' = [e \in DOMAIN M_reads_T |->
                IF e[1] = j
                THEN M_reads_T[e]
                     + SumOver([b \in at(e[2]) |->
                                   SumOver(result[b], DOMAIN result[b])], at(e[2]))
                ELSE M_reads_T[e]]
          /\ M_umis_T' = [e \in DOMAIN M_umis_T |->
                IF e[1] = j
                THEN M_umis_T[e]
                     + SumOver([b \in at(e[2]) |->
                                   Cardinality(DOMAIN result[b])], at(e[2]))
                ELSE M_umis_T[e]]
    /\ mat_j' = mat_j + 1
    /\ mat_pending' = mat_pending \ {ref}
    /\ UNCHANGED <<outside_matrix, input_bam, out_dirs, mat_pc, mat_files>>

\* M_T.transpose()
transpose(M_T) == [e \in {<<d[2], d[1]>> : d \in DOMAIN M_T} |-> M_T[<<e[2], e[1]>>]]

\* lines 407-419: each folder gets its matrix and the two label lists
MatrixWrite ==
    /\ mat_pc = "count"
    /\ mat_pending = {}
    /\ mat_files' =
          [d \in {raw_reads_output_dir, raw_umis_output_dir} |->
              [matrix |-> transpose(IF d = raw_reads_output_dir
                                    THEN M_reads_T ELSE M_umis_T),
               barcodes |-> sorted_complete_bcs(input_bam),
               features |-> reference_names]]
    /\ mat_pc' = "done"
    /\ UNCHANGED <<outside_matrix, input_bam, out_dirs, mat_pending, mat_j,
                   M_reads_T, M_umis_T>>

NextMatrix ==
    \/ MatrixSkip
    \/ MatrixBegin
    \/ \E ref \in Range(reference_names) : MatrixResult(ref)
    \/ MatrixWrite

\* one gDNA_count_matrix over every small sorted file and output folder
SpecMatrix == InitMatrix /\ [][NextMatrix]_vars

\* ------------------- chunked_gDNA_paired_recs_tmp_files_iterator, stepped

InitChunks ==
    /\ \E n \in 0..MaxStream : ck_pairs = [k \in 1..n |-> k]
    /\ ck_size \in ChunkSizes
    /\ ck_pc = "loop"
    /\ ck_n = 0
    /\ ck_chunk = <<>>
    /\ ck_yielded = <<>>
    /\ bc_fq = <<>>
    /\ p_bam = <<>>
    /\ TaggingIdle("idle")
    /\ SyncIdle
    /\ CounterIdle
    /\ MatrixIdle
    /\ RunIdle
    /\ UmiIdle
    /\ AlIdle

\* lines 225-228: pair i is appended, and the test of line 228 fails
ChunkAppend ==
    /\ ck_pc = "loop"
    /\ ck_n < Len(ck_pairs)
    /\ ~(ck_n % ck_size = 0 /\ ck_n > 0)
    /\ ck_chunk' = Append(ck_chunk, ck_pairs[ck_n + 1])
    /\ ck_n' = ck_n + 1
    /\ UNCHANGED <<outside_ck, ck_pairs, ck_size, ck_pc, ck_yielded>>

\* lines 225-229: pair i is appended, i % chunksize == 0 and i > 0: the
\* chunk is written under the name i and yielded; the generator is
\* suspended at the yield, its lists still full
ChunkYield ==
    /\ ck_pc = "loop"
    /\ ck_n < Len(ck_pairs)
    /\ ck_n % ck_size = 0 /\ ck_n > 0
    /\ ck_chunk' = Append(ck_chunk, ck_pairs[ck_n + 1])
    /\ ck_yielded' = Append(ck_yielded, [idx |-> ck_n, recs |-> ck_chunk'])
    /\ ck_n' = ck_n + 1
    /\ ck_pc' = "yielded"
    /\ UNCHANGED <<outside_ck, ck_pairs, ck_size>>

\* line 230: the consumer asks for the next chunk; a new one is begun
ChunkResume ==
    /\ ck_pc = "yielded"
    /\ ck_chunk' = <<>>
    /\ ck_pc' = "loop"
    /\ UNCHANGED <<outside_ck, ck_pairs, ck_size, ck_n, ck_yielded>>

\* lines 231-232: the stream has ended and i % chunksize is not zero: the
\* pairs left are yielded as the last chunk; the generator is suspended at
\* that yield
ChunkLast ==
    /\ ck_pc = "loop"
    /\ ck_n = Len(ck_pairs)
    /\ ck_n > 0
    /\ (ck_n - 1) % ck_size # 0
    /\ ck_yielded' = Append(ck_yielded, [idx |-> ck_n - 1, recs |-> ck_chunk])
    /\ ck_pc' = "last"
    /\ UNCHANGED <<outside_ck, ck_pairs, ck_size, ck_n, ck_chunk>>

\* The generator returns: at line 231, the stream having ended with
\* i % chunksize zero, or when the consumer asks for a chunk after the last
\* one (line 232)
ChunkReturn ==
    /\ \/ ck_pc = "last"
       \/ /\ ck_pc = "loop"
          /\ ck_n = Len(ck_pairs)
          /\ ck_n > 0
          /\ (ck_n - 1) % ck_size = 0
    /\ ck_pc' = "done"
    /\ UNCHANGED <<outside_ck, ck_pairs, ck_size, ck_n, ck_chunk, ck_yielded>>

\* line 231 after a loop over no pair: i is unbound (UnboundLocalError)
ChunkUnbound ==
    /\ ck_pc = "loop"
    /\ Len(ck_pairs) = 0
    /\ ck_pc' = "error"
    /\ UNCHANGED <<outside_ck, ck_pairs, ck_size, ck_n, ck_chunk, ck_yielded>>

NextChunks ==
    \/ ChunkAppend
    \/ ChunkYield
    \/ ChunkResume
    \/ ChunkLast
    \/ ChunkReturn
    \/ ChunkUnbound

\* the chunk generator on every short stream and chunk size
SpecChunks == InitChunks /\ [][NextChunks]_vars

\* ------------------------------- process_bc_rec_and_p_read, one call

\* the bases a read is made of
AlBases == {1, 2, 3, 5}

\* what may follow MaxTail bases: nothing, or a sample barcode ("AA",
\* "TT", or "GG", which no decode accepts) and a UMI
AlEnds == {<<>>, <<1, 1, 5>>, <<5, 5, 2>>, <<3, 3, 5>>}

\* The reads aligned: the first barcode "AA", whole or cut short, after it
\* every string of at most MaxTail bases, and after MaxTail bases one of
\* the ends
AlSeqs ==
    {<<>>, <<1>>}
        \cup UNION {{<<1, 1>> \o t : t \in [1..n -> AlBases]} : n \in 0..MaxTail}
        \cup {<<1, 1>> \o t \o e : t \in [1..MaxTail -> AlBases], e \in AlEnds}

InitAl ==
    /\ ChunkIdle
    /\ al_pc = "start"
    /\ al_best = <<>>
    /\ al_out = <<>>
    /\ al_seq \in AlSeqs
    /\ bc_fq = <<>>
    /\ p_bam = <<>>
    /\ TaggingIdle("idle")
    /\ SyncIdle
    /\ CounterIdle
    /\ MatrixIdle
    /\ RunIdle
    /\ UmiIdle

\* lines 123-152: the best score and pieces, the best aligner, the decoded
\* pieces, and what the call returns
AlProcess ==
    /\ al_pc = "start"
    /\ al_best' = corrected_pieces_of(build_gDNA_bc_aligners, al_seq)
    /\ al_out' = the({ [score |-> r.score, read |-> r.read] :
                       r \in {process_bc_rec_and_p_read(
                                 [id |-> <<1, 1>>, seq |-> al_seq],
                                 AlignedRead(<<1, 2>>), build_gDNA_bc_aligners)} })
    /\ al_pc' = "done"
    /\ UNCHANGED <<outside_al, al_seq>>

NextAl == AlProcess

\* one process_bc_rec_and_p_read on every short read
SpecAl == InitAl /\ [][NextAl]_vars

\* ----------------------------------------------------------- correct_UMIs

\* the raw UMIs of the tagged records
UmiRaws == 1..2

\* a tagged record of reference j, with cell barcode c and raw UMI u
UmiRead(j, c, u) ==
    [ref |-> reference_names[j],
     tags |-> [tag \in {"CB", "UR"} |->
                 CASE tag = "CB" -> <<barcode_whitelist[c], barcode_whitelist[1]>>
                   [] tag = "UR" -> <<u>>]]

\* the record kinds by position: the reference first, as samtools sort
\* leaves them
UmiReads ==
    [p \in 1..(MaxRefs * 4) |->
        UmiRead(((p - 1) \div 4) + 1, (((p - 1) % 4) \div 2) + 1, ((p - 1) % 2) + 1)]

\* the sorted files of n records, each with its own name
UmiFiles(n) ==
    {[k \in 1..n |-> [qname |-> k, ref |-> UmiReads[f[k]].ref,
                      tags |-> UmiReads[f[k]].tags]] :
        f \in {g \in [1..n -> 1..Len(UmiReads)] :
                  \A k \in 1..(n - 1) : g[k] <= g[k + 1]}}

\* The UMI maps of the records fetched from a file: by cell barcode, each
\* raw UMI goes to the smallest raw UMI seen with that barcode
umi_maps_of(bam, recs) ==
    [cb \in {bam[k].tags["CB"] : k \in recs} |->
        [ur \in {bam[k].tags["UR"] : k \in {h \in recs : bam[h].tags["CB"] = cb}} |->
            CHOOSE m \in {bam[k].tags["UR"] : k \in {h \in recs : bam[h].tags["CB"] = cb}} :
                \A o \in {bam[k].tags["UR"] : k \in {h \in recs : bam[h].tags["CB"] = cb}} :
                    m[1] <= o[1]]]

\* get_umi_maps_from_bam_file(input_bam_fpath, chrm=ref)
get_umi_maps_from_bam_file(bam, chrm) == umi_maps_of(bam, fetch(bam, chrm))

\* a variant whose maps are made from the records of every reference
umi_wrapper_whole_file(ref, bam) ==
    [ref |-> ref, umi_map_given_bc |-> umi_maps_of(bam, 1..Len(bam))]

\* lines 332-334
umi_parallel_wrapper(ref, bam) ==
    [ref |-> ref, umi_map_given_bc |-> get_umi_maps_from_bam_file(bam, ref)]

\* the positions of a set, in ascending order
RECURSIVE ascending(_)
ascending(S) ==
    IF S = {} THEN <<>>
    ELSE LET m == CHOOSE x \in S : \A y \in S : x <= y
         IN <<m>> \o ascending(S \ {m})

\* lines 347-350: the records of ref, each with its tag UB set from the map
rewritten(bam, ref, umi_map_given_bc) ==
    [n \in 1..Len(ascending(fetch(bam, ref))) |->
        the({ [qname |-> read.qname, ref |-> read.ref,
               tags |-> [tag \in DOMAIN read.tags \cup {"UB"} |->
                           IF tag = "UB"
                           THEN umi_map_given_bc[read.tags["CB"]][read.tags["UR"]]
                           ELSE read.tags[tag]]]
              : read \in {bam[ascending(fetch(bam, ref))[n]]} })]

InitUmi ==
    /\ ChunkIdle
    /\ AlIdle
    /\ \E n \in 0..MaxRecs : umi_in \in UmiFiles(n)
    /\ bc_fq = <<>>
    /\ p_bam = <<>>
    /\ TaggingIdle("idle")
    /\ SyncIdle
    /\ CounterIdle
    /\ MatrixIdle
    /\ RunIdle
    /\ umi_pc = "start"
    /\ umi_pending = {}
    /\ umi_i = 0
    /\ bam_out = <<>>
    /\ umi_order = <<>>

\* lines 337-345: the output is opened and every reference handed to the pool
UmiBegin ==
    /\ umi_pc = "start"
    /\ umi_pending' = Range(reference_names)
    /\ bam_out' = <<>>
    /\ umi_i' = 0
    /\ umi_pc' = "rewrite"
    /\ UNCHANGED <<outside_umi, umi_in, umi_order>>

\* lines 343-350: imap_unordered yields the map of the worker that finished
\* next, and the records of its reference are rewritten and written
UmiResult(ref) ==
    /\ umi_pc = "rewrite"
    /\ ref \in umi_pending
    /\ bam_out' = bam_out \o
          the({ rewritten(umi_in, result.ref, result.umi_map_given_bc)
                : result \in {umi_parallel_wrapper(ref, umi_in)} })
    /\ umi_i' = umi_i + 1
    /\ umi_pending' = umi_pending \ {ref}
    /\ umi_order' = Append(umi_order, ref)
    /\ UNCHANGED <<outside_umi, umi_in, umi_pc>>

\* the iteration ended: the with block closes the output and the pool
UmiEnd ==
    /\ umi_pc = "rewrite"
    /\ umi_pending = {}
    /\ umi_pc' = "done"
    /\ UNCHANGED <<outside_umi, umi_in, umi_pending, umi_i, bam_out, umi_order>>

NextUmi ==
    \/ UmiBegin
    \/ \E ref \in Range(reference_names) : UmiResult(ref)
    \/ UmiEnd

\* one correct_UMIs over every small sorted file, the maps coming in any order
SpecUmi == InitUmi /\ [][NextUmi]_vars

\* ---------------------------------------------------- process_gDNA_fastqs

\* the files of lines 33-34, the index pysam.index writes, and STAR's folder
star_w_bc_fpath == "gDNA_with_bc.bam"
star_w_bc_sorted_fpath == "gDNA_with_bc.sorted.bam"
star_w_bc_sorted_index == "gDNA_with_bc.sorted.bam.bai"
star_out_dir == "STAR_files"

\* lines 184-200: the records written to star_w_bc_fh from the pairs the
\* synchronizer yields
serial_written(pairs, thresh) ==
    accepted_reads(process_all(first_pairs(pairs)), thresh)
    \o accepted_reads(process_all(SubSeq(pairs, n_first_seqs + 2, Len(pairs))),
                      thresh)

\* lines 166-202: the records written to star_w_bc_fh and the exception
\* that ends the call, if any.  Line 168 raises NameError when the builder
\* is not bound.  The synchronizer's RuntimeError ends the sampling loop
\* before anything is written, or the second loop after the records before
\* it are; on an empty stream line 201 reads i unbound.
serial_process_gDNA_fastqs(names, bc_fq_fpath, star_raw_fpath) ==
    IF ~builder_bound(names) THEN [out |-> <<>>, error |-> "NameError"]
    ELSE
    the({ IF sampling_raises(it)
          THEN [out |-> <<>>, error |-> "RuntimeError"]
          ELSE [out |-> the({ serial_written(it.pairs, thresh) :
                              thresh \in {first_thresh(it.pairs)} }),
                error |-> IF it.error THEN "RuntimeError"
                          ELSE IF it.pairs = <<>> THEN "UnboundLocalError"
                          ELSE NoError] :
          it \in {gDNA_paired_recs_iterator(bc_fq_fpath, star_raw_fpath)} })

\* lines 312-326 with workers that all return: islice takes the chunks
\* `threads` at a time, and the chunks of a call of list() in which the
\* generator raises are never processed.  Line 327 reads tmp_out_bam_fpath,
\* which is unbound when no chunk was merged.
parallel_written(names, thresh, all, nthreads) ==
    the({ [out |-> Concat([k \in 1..merged |->
                              process_chunk_of_reads(names, thresh, all.chunks[k]).out]),
           error |-> IF all.error # NoError THEN all.error
                     ELSE IF all.chunks = <<>> THEN "UnboundLocalError"
                     ELSE NoError] :
          merged \in {IF all.error = NoError THEN Len(all.chunks)
                      ELSE (Len(all.chunks) \div nthreads) * nthreads} })

\* lines 253-329: the records written to star_w_bc_fh and the exception
\* that ends the call, if any.  Line 262 raises NameError when the builder
\* is not bound, before the pool and the temporary directory are made.
parallel_process_gDNA_fastqs(names, bc_fq_fpath, star_raw_fpath, chunk_size, nthreads) ==
    IF ~builder_bound(names) THEN [out |-> <<>>, error |-> "NameError"]
    ELSE
    the({ IF sampling_raises(it)
          THEN [out |-> <<>>, error |-> "RuntimeError"]
          ELSE the({ parallel_written(names, thresh, all, nthreads) :
                     thresh \in {first_thresh(it.pairs)},
                     all \in {chunked_gDNA_paired_recs_tmp_files_iterator(
                                 bc_fq_fpath, star_raw_fpath, chunk_size)} }) :
          it \in {gDNA_paired_recs_iterator(bc_fq_fpath, star_raw_fpath)} })

\* line 71
process_fastqs_func(names, args, bc_fq_fpath, star_raw_fpath) ==
    IF args.threads = 1
    THEN serial_process_gDNA_fastqs(names, bc_fq_fpath, star_raw_fpath)
    ELSE parallel_process_gDNA_fastqs(names, bc_fq_fpath, star_raw_fpath,
                                      args.chunksize, args.threads)

\* the place of a record in a sorted file: the reference, then the position
SortKeyLess(a, b) ==
    LET ja == CHOOSE j \in 1..MaxRefs : reference_names[j] = a.ref
        jb == CHOOSE j \in 1..MaxRefs : reference_names[j] = b.ref
    IN ja < jb \/ (ja = jb /\ a.pos < b.pos)

RECURSIVE SortFrom(_, _)
SortFrom(recs, left) ==
    IF left = {} THEN <<>>
    ELSE LET m == CHOOSE k \in left :
                     \A j \in left \ {k} : SortKeyLess(recs[k], recs[j])
         IN <<recs[m]>> \o SortFrom(recs, left \ {m})

\* pysam.sort: the records by reference and position
pysam_sort(recs) == SortFrom(recs, 1..Len(recs))

\* pysam.index: the reference of each record of the sorted file
pysam_index(recs) == [k \in 1..Len(recs) |-> recs[k].ref]

\* a file system with the file written, and with it removed
with_file(files, name, content) ==
    [f \in (DOMAIN files) \cup {name} |-> IF f = name THEN content ELSE files[f]]

without_file(files, name) == [f \in (DOMAIN files) \ {name} |-> files[f]]

\* the threads and the chunk size of a run
RunArguments == [threads : 1..MaxThreads, chunksize : ChunkSizes]

\* the files of an output folder in which the tagged file was sorted and
\* indexed
sorted_and_indexed(files) ==
    the({ with_file(with_file(without_file(files, star_w_bc_fpath),
                              star_w_bc_sorted_fpath, sorted_recs),
                    star_w_bc_sorted_index, pysam_index(sorted_recs)) :
          sorted_recs \in {pysam_sort(files[star_w_bc_fpath])} })

\* no file
NoFiles == [f \in {} |-> <<>>]

\* The first run on an output folder as the command may find it.  The
\* barcode fastq is a stream of at most MaxRunLen reads; STAR aligns every
\* one of them, to some reference, at positions that fall as the stream
\* goes on.  The folder is missing, or empty, or holds gDNA_with_bc.bam as
\* the tagging function writes it for these files, or holds that file
\* sorted and indexed.
InitRun ==
    /\ ChunkIdle
    /\ AlIdle
    /\ UmiIdle
    /\ \E n \in 1..MaxRunLen :
          \E s \in [1..n -> Reads], r \in [1..n -> 1..MaxRefs] :
             /\ bc_fq = [k \in 1..n |-> [id |-> <<k, 1>>, seq |-> s[k]]]
             /\ p_bam = [k \in 1..n |-> [qname |-> <<k, 2>>,
                                         tags |-> [t \in {} |-> None],
                                         ref |-> reference_names[r[k]],
                                         pos |-> n - k]]
    /\ arguments \in RunArguments
    /\ \E found \in 0..3 :
          \E res \in {process_fastqs_func({"build_gDNA_bc_aligners"}, arguments,
                                          bc_fq, p_bam)} :
             \E tagged \in {with_file(NoFiles, star_w_bc_fpath, res.out)} :
                /\ found >= 2 => res.error = NoError
                /\ out_dir_exists = (found >= 1)
                /\ out_files = IF found <= 1 THEN NoFiles
                               ELSE IF found = 2 THEN tagged
                               ELSE sorted_and_indexed(tagged)
                /\ finished_stages = IF found <= 1 THEN {}
                                     ELSE IF found = 2 THEN {"tag"}
                                     ELSE {"tag", "sort_index"}
    /\ TaggingIdle("idle")
    /\ SyncIdle
    /\ CounterIdle
    /\ MatrixIdle
    /\ run_pc = "start"
    /\ completed = 0
    /\ run_stages = <<>>
    /\ run_error = NoError
    /\ runs = 1

\* lines 33-53: what is found in the output folder decides where this run
\* resumes; the folder is made when it is missing
RunStart ==
    /\ run_pc = "start"
    /\ completed' = IF star_w_bc_sorted_fpath \in DOMAIN out_files THEN 2
                    ELSE IF star_w_bc_fpath \in DOMAIN out_files THEN 1
                    ELSE 0
    /\ out_dir_exists' = TRUE
    /\ run_pc' = "tag"
    /\ UNCHANGED <<outside_run, arguments, out_files, run_stages, run_error, runs,
                   finished_stages>>

\* the names that lines 56 and 87 read and no line of the module binds
determine_bc_and_paired_fastq_idxs == "NameError: determine_bc_and_paired_fastq_idxs"

star_w_bc_umi_sorted_fpath == "NameError: star_w_bc_umi_sorted_fpath"

\* lines 55-56: neither file was found; the first statement of the tagging
\* stage calls determine_bc_and_paired_fastq_idxs, a name the module neither
\* defines nor imports, so the run ends in NameError before STAR is run
\* and before gDNA_with_bc.bam is opened
RunTagRaises ==
    /\ run_pc = "tag"
    /\ completed < 1
    /\ run_error' = determine_bc_and_paired_fastq_idxs
    /\ run_pc' = "raised"
    /\ UNCHANGED <<outside_run, arguments, completed, out_dir_exists, out_files,
                   run_stages, runs, finished_stages>>

\* line 55: gDNA_with_bc.bam or the sorted file was found
RunSkipTag ==
    /\ run_pc = "tag"
    /\ completed >= 1
    /\ run_pc' = "sort"
    /\ UNCHANGED <<outside_run, arguments, completed, out_dir_exists, out_files,
                   run_stages, run_error, runs, finished_stages>>

\* lines 80-85: the tagged file is sorted, the unsorted file removed, the
\* sorted file indexed
RunSortIndex ==
    /\ run_pc = "sort"
    /\ completed < 2
    /\ out_files' = sorted_and_indexed(out_files)
    /\ run_stages' = Append(run_stages, "sort_index")
    /\ finished_stages' = finished_stages \cup {"sort_index"}
    /\ run_pc' = "count_matrix"
    /\ UNCHANGED <<outside_run, arguments, completed, out_dir_exists, run_error, runs>>

\* line 82: the run is stopped (a signal, a full disk) while pysam.sort
\* writes the sorted file, of which the first k records are there; the
\* unsorted file stays
RunSortStopped(k) ==
    /\ run_pc = "sort"
    /\ completed < 2
    /\ k \in 0..Len(out_files[star_w_bc_fpath])
    /\ out_files' = with_file(out_files, star_w_bc_sorted_fpath,
                              SubSeq(pysam_sort(out_files[star_w_bc_fpath]), 1, k))
    /\ run_stages' = Append(run_stages, "sort_index")
    /\ run_error' = "stopped"
    /\ run_pc' = "raised"
    /\ UNCHANGED <<outside_run, arguments, completed, out_dir_exists, runs,
                   finished_stages>>

\* lines 82-85: the run is stopped, or pysam.index raises, after the
\* sorted file was written and the unsorted one removed: no index is there
RunIndexStopped ==
    /\ run_pc = "sort"
    /\ completed < 2
    /\ out_files' = without_file(sorted_and_indexed(out_files), star_w_bc_sorted_index)
    /\ run_stages' = Append(run_stages, "sort_index")
    /\ run_error' = "stopped"
    /\ run_pc' = "raised"
    /\ UNCHANGED <<outside_run, arguments, completed, out_dir_exists, runs,
                   finished_stages>>

\* line 80: the sorted file was found
RunSkipSort ==
    /\ run_pc = "sort"
    /\ completed = 2
    /\ run_pc' = "count_matrix"
    /\ UNCHANGED <<outside_run, arguments, completed, out_dir_exists, out_files,
                   run_stages, run_error, runs, finished_stages>>

\* line 87: the argument star_w_bc_umi_sorted_fpath is a name no line
\* binds, so the call raises NameError before gDNA_count_matrix is entered
RunCountMatrix ==
    /\ run_pc = "count_matrix"
    /\ run_error' = star_w_bc_umi_sorted_fpath
    /\ run_pc' = "raised"
    /\ UNCHANGED <<outside_run, arguments, completed, out_dir_exists, out_files,
                   run_stages, runs, finished_stages>>

\* the command is run again on the same output folder
RunAgain ==
    /\ run_pc = "raised"
    /\ runs < MaxRuns
    /\ runs' = runs + 1
    /\ run_pc' = "start"
    /\ run_stages' = <<>>
    /\ run_error' = NoError
    /\ completed' = 0
    /\ UNCHANGED <<outside_run, arguments, out_dir_exists, out_files, finished_stages>>

NextRun ==
    \/ RunStart
    \/ RunTagRaises
    \/ RunSkipTag
    \/ RunSortIndex
    \/ \E k \in 0..MaxRunLen : RunSortStopped(k)
    \/ RunIndexStopped
    \/ RunSkipSort
    \/ RunCountMatrix
    \/ RunAgain

\* the runs of process_gDNA_fastqs on one output folder
SpecRun == InitRun /\ [][NextRun]_vars

\* ============================================================= claims

\* the position in the input stream of a written record
PosOf(read) == read.qname[1]

\* the best normalized score of a barcode read over the gDNA aligners
BestScore(bc_seq) ==
    LET sp == [a \in 1..Len(build_gDNA_bc_aligners) |->
                  find_norm_score_and_pieces(build_gDNA_bc_aligners[a], bc_seq)]
    IN CHOOSE x \in {sp[a][1] : a \in 1..Len(sp)} :
           \A a \in 1..Len(sp) : sp[a][1] <= x

\* whether the three decodes of a barcode read succeed
Decodes(bc_seq) ==
    LET raw == max([a \in 1..Len(build_gDNA_bc_aligners) |->
                       find_norm_score_and_pieces(build_gDNA_bc_aligners[a], bc_seq)])[2]
    IN /\ bcd_decode(upper_replace_N(raw[1])) # None
       /\ bcd_decode(upper_replace_N(raw[3])) # None
       /\ sbcd_decode(upper_replace_N(raw[5])) # None

\* both, for the reads of Reads, worked out once
ScoreOfRead == [seq \in Reads |-> BestScore(seq)]

DecodesOfRead == [seq \in Reads |-> Decodes(seq)]

\* the scores of the pairs of the stream, by position
Scores == [k \in 1..Len(bc_fq) |-> ScoreOfRead[bc_fq[k].seq]]

\* for each pair of the stream, whether its three decodes succeed
Decoded == [k \in 1..Len(bc_fq) |-> DecodesOfRead[bc_fq[k].seq]]

ParallelEnded == par_pc \in {"done", "raised"}

\* C1: for every stream of at least one pair, every chunk size and every
\* thread count >= 2, the records parallel_process_gDNA_fastqs writes are
\* those serial_process_gDNA_fastqs writes, in the same order and with the
\* same tags (no worker failing).
C1_ParallelWritesWhatSerialWrites ==
    (ser_pc = "done" /\ ParallelEnded /\ failed_chunks = {}) => par_fh = ser_fh

\* C2: whatever the order in which the counting workers complete, the
\* read-count entry the label lists place at (ref, bc) is the number of
\* records of ref whose complete barcode is bc, and the UMI-count entry is
\* the number of distinct UB among them.
C2_MatrixEntriesMatchLabels ==
    mat_pc = "done" =>
       \A d \in DOMAIN mat_files :
          LET out == mat_files[d]
          IN \A b \in 1..Len(out.barcodes), r \in 1..Len(out.features) :
                LET recs == {k \in 1..Len(input_bam) :
                                /\ input_bam[k].ref = out.features[r]
                                /\ build_complete_bc(input_bam[k]) = out.barcodes[b]}
                IN out.matrix[<<b - 1, r - 1>>] =
                      IF d = raw_reads_output_dir
                      THEN Cardinality(recs)
                      ELSE Cardinality({input_bam[k].tags["UB"] : k \in recs})

\* C3: whatever the order in which the workers end, the records in the
\* output handle are in the order of their pairs in the input stream.
C3_MergedInStreamOrder ==
    \A a, b \in 1..Len(par_fh) : a < b => PosOf(par_fh[a]) < PosOf(par_fh[b])

\* a run in which a worker ended before one submitted earlier, and the
\* records of three chunks or more were merged
C3_Witness ==
    /\ par_pc = "done"
    /\ reordered
    /\ n_taken >= 3
    /\ Len(par_fh) >= 3

\* whether the names p are a subsequence of the names b
IsSubsequence(p, b) ==
    \E f \in [1..Len(p) -> 1..Len(b)] :
        /\ \A k \in 1..Len(p) : b[f[k]] = p[k]
        /\ \A k \in 1..(Len(p) - 1) : f[k] < f[k + 1]

\* every pair yielded so far is the k-th aligned record with a barcode
\* record of the same name
YieldedPairsMatch ==
    \A k \in 1..Len(yielded) :
        /\ yielded[k][2] = k
        /\ names_pair(bc_fq[yielded[k][1]].id, p_bam[k].qname)

\* C4: when the aligned names are a subsequence of the barcode names, the
\* iterator yields one pair for each aligned record, in the order of the
\* aligned stream, each pair of one name, at strictly increasing positions
\* of the barcode stream.
C4_ForwardScanPairsAll ==
    IsSubsequence(NamesOf([k \in 1..Len(p_bam) |-> p_bam[k].qname]),
                  NamesOf([k \in 1..Len(bc_fq) |-> bc_fq[k].id]))
    => /\ sync_pc # "error"
       /\ YieldedPairsMatch
       /\ \A k \in 2..Len(yielded) : yielded[k - 1][1] < yielded[k][1]
       /\ sync_pc = "stopped" => Len(yielded) = Len(p_bam)

\* the iterator has ended after it passed over a barcode record without a
\* mate between two records it paired
C4_Witness ==
    /\ sync_pc = "stopped"
    /\ Len(yielded) >= 2
    /\ Len(yielded) = Len(p_bam)
    /\ \E k \in 2..Len(yielded) : yielded[k][1] > yielded[k - 1][1] + 1

\* C5: when no barcode record at or after the scan position pairs with an
\* aligned record, the iterator ends in an error: it never ends as if the
\* stream were complete, and never yields a pair of two names.
C5_ExhaustedIsFatal ==
    /\ YieldedPairsMatch
    /\ sync_pc = "stopped" => Len(yielded) = Len(p_bam)
    /\ sync_pc = "error" =>
          /\ Len(yielded) = p_pos - 1
          /\ \A m \in 1..Len(bc_fq) :
                names_pair(bc_fq[m].id, p_bam[p_pos].qname)
                => yielded # <<>> /\ m <= yielded[Len(yielded)][1]
    /\ (sync_pc = "iterating" /\ p_pos < Len(p_bam)
        /\ \A m \in (bc_pos + 1)..Len(bc_fq) :
              ~names_pair(bc_fq[m].id, p_bam[p_pos + 1].qname))
       => ENABLED (SyncExhausted /\ sync_pc' = "error")

\* the iterator has failed on an aligned record whose mate it had passed,
\* after it yielded a pair
C5_Witness ==
    /\ sync_pc = "error"
    /\ yielded # <<>>
    /\ \E m \in 1..Len(bc_fq) : names_pair(bc_fq[m].id, p_bam[p_pos].qname)

\* C6: once a worker has failed, the function never returns normally, no
\* record of a chunk submitted after the failed one is written, and the
\* exception in which the function ends is the one the worker raised.
C6_WorkerFailureAborts ==
    \A f \in failed_chunks :
        /\ par_pc # "done"
        /\ \A a \in 1..Len(par_fh) : PosOf(par_fh[a]) <= f + 1
        /\ par_pc = "raised" => par_error = "exception of a worker"

\* reads in which one decode fails: the second barcode ("GG"), the sample
\* barcode ("GG"), and a sample barcode as near to "AA" as to "TT" ("AT")
ProbeReads ==
    { <<1, 1, 3, 5, 2, 3, 3, 3, 1, 1, 5>>,
      <<1, 1, 3, 5, 2, 2, 2, 3, 3, 3, 5>>,
      <<1, 1, 3, 5, 2, 2, 2, 3, 1, 5, 5>> }

\* what process_bc_rec_and_p_read makes of each of them, worked out once
ProbeResults ==
    [seq \in ProbeReads |->
        process_bc_rec_and_p_read([id |-> <<0, 1>>, seq |-> seq],
                                  AlignedRead(<<0, 2>>), build_gDNA_bc_aligners)]

\* C7: process_bc_rec_and_p_read returns no record and leaves the aligned
\* read without a tag when a decode fails, and otherwise returns the read
\* with all seven tags; every record written, by either path, has all seven
\* tags and comes from a pair whose three decodes succeeded.
C7_NoPartialTags ==
    LET pairs == Pairs
        decoded == Decoded
    IN /\ \A k \in 1..Len(pairs) :
             LET r == process_pair(pairs[k][1], pairs[k][2])
             IN IF decoded[k]
                THEN r.read # None /\ DOMAIN r.read.tags = AllTags /\ r.p_read = r.read
                ELSE r.read = None /\ DOMAIN r.p_read.tags = {}
       /\ \A a \in 1..Len(ser_fh) :
             DOMAIN ser_fh[a].tags = AllTags /\ decoded[PosOf(ser_fh[a])]
       /\ \A a \in 1..Len(par_fh) :
             DOMAIN par_fh[a].tags = AllTags /\ decoded[PosOf(par_fh[a])]
       /\ \A seq \in ProbeReads :
             /\ ProbeResults[seq].read = None
             /\ DOMAIN ProbeResults[seq].p_read.tags = {}

\* both paths have ended on a stream with a pair whose decode fails and a
\* pair whose decodes succeed; only the second was written
C7_Witness ==
    /\ ser_pc = "done"
    /\ par_pc = "done"
    /\ ser_fh # <<>>
    /\ par_fh # <<>>
    /\ \E k \in 1..Len(bc_fq) : ~Decoded[k]

\* the scores of the sampled prefix
SampleOf(scores) == SubSeq(scores, 1, Min(Len(scores), n_first_seqs + 1))

\* x < mean(sample) - 2 * stddev(sample), with the population deviation
\* stddev**2 = mean(x**2) - mean(x)**2
BelowThreshold(x, sample) ==
    LET n == Len(sample)
        S == SumSeq(sample)
        Q == SumSeq([k \in 1..n |-> sample[k] * sample[k]])
    IN /\ S - n * x > 0
       /\ (S - n * x) * (S - n * x) > 4 * (n * Q - S * S)

\* C8: the threshold computed from the sampled prefix is applied to every
\* record: neither path ever writes a record whose score is below it, in
\* the sampled prefix or after it.
C8_NoneBelowThresholdWritten ==
    LET scores == Scores
        sample == SampleOf(scores)
    IN /\ \A a \in 1..Len(ser_fh) :
             ~BelowThreshold(scores[PosOf(ser_fh[a])], sample)
       /\ \A a \in 1..Len(par_fh) :
             ~BelowThreshold(scores[PosOf(par_fh[a])], sample)

\* both paths have ended on a stream with a record below the threshold in
\* the sampled prefix and another one after it, and have written records
C8_Witness ==
    /\ ser_pc = "done"
    /\ par_pc = "done"
    /\ ser_fh # <<>>
    /\ par_fh # <<>>
    /\ LET scores == Scores
           sample == SampleOf(scores)
       IN /\ \E k \in 1..Len(sample) : BelowThreshold(scores[k], sample)
          /\ \E k \in (Len(sample) + 1)..Len(scores) : BelowThreshold(scores[k], sample)

\* the threshold is the float of the integer t
ThresholdIs(thresh, t) == thresh = f64_from_int(t)

\* C9: the threshold is mean - 2 * stddev with the population deviation:
\* the sample [10,10,10,10,100] has mean 28, deviation 36 and threshold
\* -44, and the records the filter passes over are those whose score is
\* strictly below the threshold.
C9_MeanMinusTwoSigma ==
    cnt_pc \in {"filter", "done"} =>
       LET sample == norm_scores_sample(norm_scores)
       IN /\ sample = <<10, 10, 10, 10, 100>> =>
                /\ np_average(sample) = f64_from_int(28)
                /\ np_std(sample) = f64_from_int(36)
                /\ ThresholdIs(cnt_thresh, -44)
                /\ \A k \in 1..cnt_i : (k \in Range(cnt_kept)) <=> (norm_scores[k] >= -44)
          /\ \A k \in 1..cnt_i :
                (k \notin Range(cnt_kept)) <=> BelowThreshold(norm_scores[k], sample)

\* the counter has read a file whose sample is [10,10,10,10,100]: it has
\* let a record of score -44 pass and passed over one of score -45
C9_Witness ==
    /\ cnt_pc = "done"
    /\ norm_scores_sample(norm_scores) = <<10, 10, 10, 10, 100>>
    /\ norm_scores[Len(norm_scores)] = -45
    /\ Len(norm_scores) \notin Range(cnt_kept)
    /\ cnt_kept = <<1, 2, 3, 4, 5>>

\* C10: a run executes tag, sort/index, UMI correction and matrix assembly
\* in this order: when it comes to the call of gDNA_count_matrix,
\* correct_UMIs has run after the sort and every record of the sorted file
\* carries the tag UB; and the call is made, the run does not end there.
C10_UmiCorrectionBeforeMatrix ==
    /\ run_pc = "count_matrix" =>
          /\ run_stages # <<>>
             => run_stages[Len(run_stages)] = "correct_UMIs"
          /\ \A k \in 1..Len(out_files[star_w_bc_sorted_fpath]) :
                "UB" \in DOMAIN out_files[star_w_bc_sorted_fpath][k].tags
    /\ run_error # star_w_bc_umi_sorted_fpath

\* the corrected UMI the map of a record's own reference gives the record
OwnCorrectedUmi(k) ==
    get_umi_maps_from_bam_file(umi_in, umi_in[k].ref)
        [umi_in[k].tags["CB"]][umi_in[k].tags["UR"]]

\* C11: in whatever order the maps of the references come, no record is
\* written twice and every record written carries in UB the corrected UMI
\* that the map of its own reference gives its CB and UR; once correct_UMIs
\* has returned, every record mapped to a declared reference is written
C11_RewrittenByOwnReference ==
    /\ \A m \in 1..Len(bam_out) :
          /\ bam_out[m].qname \in 1..Len(umi_in)
          /\ bam_out[m].ref = umi_in[bam_out[m].qname].ref
          /\ bam_out[m].tags["CB"] = umi_in[bam_out[m].qname].tags["CB"]
          /\ bam_out[m].tags["UR"] = umi_in[bam_out[m].qname].tags["UR"]
          /\ bam_out[m].tags["UB"] = OwnCorrectedUmi(bam_out[m].qname)
          /\ \A o \in 1..Len(bam_out) : bam_out[o].qname = bam_out[m].qname => o = m
    /\ umi_pc = "done" =>
          \A k \in 1..Len(umi_in) : \E m \in 1..Len(bam_out) : bam_out[m].qname = k

\* correct_UMIs has returned; the map of the last reference came first, and
\* a barcode with the same raw UMI is corrected differently at two references
C11_Witness ==
    /\ umi_pc = "done"
    /\ umi_order[1] = reference_names[Len(reference_names)]
    /\ \E m, o \in 1..Len(bam_out) :
          /\ bam_out[m].ref # bam_out[o].ref
          /\ bam_out[m].tags["CB"] = bam_out[o].tags["CB"]
          /\ bam_out[m].tags["UR"] = bam_out[o].tags["UR"]
          /\ bam_out[m].tags["UB"] # bam_out[o].tags["UB"]

\* C12: when parallel_process_gDNA_fastqs has returned or raised, no file
\* of a chunk (and so no temporary directory) is left
C12_NoTemporaryFileRemains ==
    ParallelEnded => tmp_files = {}

\* the chunks of the run, in the order the generator yields them
AllChunks == chunked_gDNA_paired_recs_tmp_files_iterator(bc_fq, p_bam, chunksize).chunks

\* the chunks (by position in the sequence all) that have a file in the
\* temporary directory
InFlightOf(all) ==
    {n \in 1..Len(all) :
        (chunk_in_files(all[n].idx) \cup {chunk_out_file(all[n].idx)})
            \cap tmp_files # {}}

\* the chunk at position n has been merged into the output
Merged(n) ==
    \/ n <= n_taken - Len(batch)
    \/ /\ n <= n_taken
       /\ batch[n - (n_taken - Len(batch))].status = "merged"

\* C13: at every point of parallel_process_gDNA_fastqs at most `threads`
\* chunks have files in the temporary directory, and the files of chunk
\* n + threads are not written before chunk n has been merged
C13_InFlightAtMostThreads ==
    par_pc \in {"islice", "imap", "exit", "cleanup", "done", "raised"} =>
        \A all \in {AllChunks} : \A InFlight \in {InFlightOf(all)} :
            /\ Cardinality(InFlight) <= threads
            /\ \A n \in 1..Len(all) : (n + threads) \in InFlight => Merged(n)

\* the first batch filled the window and was merged, and the files of a
\* chunk of the second batch are in the directory
C13_Witness ==
    /\ par_pc = "imap"
    /\ par_i = 1
    /\ (threads + 1) \in InFlightOf(AllChunks)
    /\ Merged(1)

\* the (score, pieces) of each layout variant on the read, in declared order
VariantResults ==
    [k \in 1..Len(build_gDNA_bc_aligners) |->
        find_norm_score_and_pieces(build_gDNA_bc_aligners[k], al_seq)]

\* the first variant, in declared order, with the greatest score
FirstBestVariant ==
    CHOOSE k \in 1..Len(VariantResults) :
        /\ \A j \in 1..Len(VariantResults) : VariantResults[j][1] <= VariantResults[k][1]
        /\ \A j \in 1..(k - 1) : VariantResults[j][1] < VariantResults[k][1]

\* C14: the score and the pieces chosen for a read are those of the first
\* variant, in declared order, among the variants with the greatest score
C14_FirstOfBestVariantsWins ==
    al_pc = "done" =>
        /\ al_best.raw_score = VariantResults[FirstBestVariant][1]
        /\ al_best.raw_pieces = VariantResults[FirstBestVariant][2]
        /\ al_out.score = al_best.raw_score

\* a read on which two variants tie on the greatest score with different
\* pieces, the score being above zero
C14_Witness ==
    /\ al_pc = "done"
    /\ al_best.raw_score > 0
    /\ \E j \in 1..Len(VariantResults) :
          /\ j # FirstBestVariant
          /\ VariantResults[j][1] = al_best.raw_score
          /\ VariantResults[j][2] # al_best.raw_pieces

\* C15: called with a matrix folder that exists, gDNA_count_matrix returns
\* at once: it counts nothing and writes no matrix and no label file
C15_ExistingFolderSkips ==
    [][(mat_pc = "start" /\ out_dirs # {}) =>
          /\ mat_pc' = "skipped"
          /\ mat_pending' = {}
          /\ M_reads_T' = <<>>
          /\ M_umis_T' = <<>>
          /\ mat_files' = <<>>]_vars

\* the function has returned on the second folder, the input holding records
C15_Witness ==
    /\ mat_pc = "skipped"
    /\ raw_umis_output_dir \in out_dirs
    /\ input_bam # <<>>
    /\ mat_files = <<>>

\* the complete barcodes of the records of the input file
ObservedBarcodes == {build_complete_bc(input_bam[k]) : k \in 1..Len(input_bam)}

\* C16: in both folders the barcode list holds every complete barcode of
\* the input once, in ascending order of Python's strings, and the feature
\* list is the references of the header in their order, whatever the order
\* in which the workers ended
C16_LabelListsDeterministic ==
    mat_pc = "done" =>
        \A d \in {raw_reads_output_dir, raw_umis_output_dir} :
            /\ Range(mat_files[d].barcodes) = ObservedBarcodes
            /\ \A a \in 1..(Len(mat_files[d].barcodes) - 1) :
                  StrLess(mat_files[d].barcodes[a], mat_files[d].barcodes[a + 1])
            /\ mat_files[d].features = [j \in 1..MaxRefs |-> <<"chr", j>>]

\* The lists are written; the input holds a barcode before a smaller one,
\* and no record of the first reference, whose row holds counts all the
\* same: the worker of a later reference ended first
C16_Witness ==
    /\ mat_pc = "done"
    /\ \E a, b \in 1..Len(input_bam) :
          /\ a < b
          /\ StrLess(build_complete_bc(input_bam[b]), build_complete_bc(input_bam[a]))
    /\ \A k \in 1..Len(input_bam) : input_bam[k].ref # reference_names[1]
    /\ \E e \in DOMAIN M_reads_T : e[1] = 0 /\ M_reads_T[e] > 0

\* C17: once the generator has returned, the chunks it yielded, put end
\* to end in the order of their yield, are the synchronized stream
C17_ChunksPartitionStream ==
    (ck_pc = "done" /\ Len(ck_pairs) >= 1) =>
        Concat([k \in 1..Len(ck_yielded) |-> ck_yielded[k].recs]) = ck_pairs

\* C18: every chunk yielded but the last holds exactly chunksize pairs, and
\* the last holds between 1 and chunksize pairs
C18_ChunksOfFixedSize ==
    ck_pc = "done" =>
        \A k \in 1..Len(ck_yielded) :
            IF k < Len(ck_yielded)
            THEN Len(ck_yielded[k].recs) = ck_size
            ELSE Len(ck_yielded[k].recs) \in 1..ck_size

\* C19: both functions compute the threshold from the scores of the first
\* n_first_seqs pairs of the stream, or of all its pairs when it has fewer
C19_SampleIsFirstN ==
    /\ ser_pc \in {"write", "continue", "done"} =>
          Len(first_scores_and_reads) = Min(n_first_seqs, Len(Pairs))
    /\ par_thresh # None =>
          par_thresh = threshold_of(SubSeq(Scores, 1, Min(n_first_seqs, Len(Scores))))

\* C20: when serial_process_gDNA_fastqs has returned, every pair of the
\* stream whose decodes succeed and whose score is not below the threshold
\* is in the output once, and no other pair is in it: no pair is passed
\* over by both loops or handled by both
C20_EveryPairEvaluatedOnce ==
    ser_pc = "done" =>
        \A k \in 1..Len(Pairs) :
            Cardinality({a \in 1..Len(ser_fh) : PosOf(ser_fh[a]) = k})
                = IF Decoded[k] /\ ~BelowThreshold(Scores[k], SampleOf(Scores))
                  THEN 1 ELSE 0

\* the function has returned on a stream that reaches two pairs past the
\* sample; the last pair of the sample and the first pair after it are
\* both in the output, and some pair is not
C20_Witness ==
    /\ ser_pc = "done"
    /\ Len(Pairs) >= n_first_seqs + 2
    /\ \E a \in 1..Len(ser_fh) : PosOf(ser_fh[a]) = n_first_seqs + 1
    /\ \E a \in 1..Len(ser_fh) : PosOf(ser_fh[a]) = n_first_seqs + 2
    /\ Len(ser_fh) < Len(Pairs)

\* C21: in a record returned with its tags, the spacers of FB are those of
\* the layout variant whose pieces are the raw pieces of CR, FR and SR
C21_TagsOfOneVariant ==
    (al_pc = "done" /\ al_out.read # None) =>
        \A k \in 1..Len(build_gDNA_bc_aligners) :
            build_gDNA_bc_aligners[k].prefixes[2] = al_out.read.tags["FB"][1] =>
                /\ build_gDNA_bc_aligners[k].prefixes[4] = al_out.read.tags["FB"][2]
                /\ al_out.read.tags["CR"]
                      = <<VariantResults[k][2][1], VariantResults[k][2][3]>>
                /\ al_out.read.tags["FR"]
                      = <<VariantResults[k][2][2], VariantResults[k][2][4]>>
                /\ al_out.read.tags["SR"] = VariantResults[k][2][5]

\* a record returned with its tags for a read on which two variants tie on
\* the greatest score and cut the read into different pieces
C21_Witness ==
    /\ al_pc = "done"
    /\ al_out.read # None
    /\ \E j, k \in 1..Len(VariantResults) :
          /\ j < k
          /\ VariantResults[j][1] = al_out.score
          /\ VariantResults[k][1] = al_out.score
          /\ VariantResults[j][2] # VariantResults[k][2]

\* C22: whatever runs came before on the output folder, a run passes over
\* the tagging stage only if some run carried it through, and over sorting
\* and indexing only if some run carried them through
C22_SkipsOnlyFinishedStages ==
    /\ (run_pc = "sort" /\ completed >= 1) => "tag" \in finished_stages
    /\ (run_pc = "count_matrix" /\ completed = 2) => "sort_index" \in finished_stages

\* C23: a call that meets a matrix folder that exists leaves the output
\* tree as it was, making no folder and writing no file; so a folder that
\* a call has made holds, when the call returns with both folders present,
\* its matrix and its two label lists
C23_SkipLeavesTreeUnchanged ==
    [][/\ (mat_pc = "start" /\ out_dirs # {}) =>
             /\ out_dirs' = out_dirs
             /\ mat_files' = mat_files
       /\ \A d \in {raw_reads_output_dir, raw_umis_output_dir} :
             (/\ mat_pc' \in {"skipped", "done"}
              /\ d \notin out_dirs
              /\ {raw_reads_output_dir, raw_umis_output_dir} \subseteq out_dirs')
                => d \in DOMAIN mat_files']_vars

====
